---------------------------- MODULE Spec2Model ----------------------------
(***************************************************************************)
(* Stimulus generator of the NeuroState estimation experiment              *)
(* (stimulus-generator.js): the seeded random stream, the sampling         *)
(* primitives, the hazard models, the per-sequence loop and the assembly   *)
(* of the tutorial and main sequences of both conditions.                  *)
(*                                                                         *)
(* Number representation.                                                  *)
(*  - SeededRandom.current is a 32-bit unsigned integer, kept as two       *)
(*    16-bit limbs <<hi, lo>> (TLC integers are 32-bit signed).            *)
(*  - A probability (a JS double in [0,1]) is kept exactly, as three       *)
(*    24-bit limbs <<a, b, c>> standing for a/2^24 + b/2^48 + c/2^72.      *)
(*    Every double used here (0.1, 0.2, 0.3, 0.5, the HD hazards for       *)
(*    tau >= 0, and every u = current/2^32) is a multiple of 2^-72, so     *)
(*    the comparisons `rng.random() < p` are decided exactly as in JS.     *)
(*  - A state or observation (a JS double in [0,300]) is kept in fixed     *)
(*    point, in hundredths of a state unit, rounded down.                  *)
(***************************************************************************)
EXTENDS Integers, Sequences, FiniteSets, TLC

\* ------------------------------------------------------------------ bounds

\* Largest main trial count a generator is constructed with.
MaxMain == 60
\* generateAllSequences calls made in one run, over both generators.
MaxCalls == 2
\* Direct generateSequence calls made in one run (SeqSpec).
MaxSeqCalls == 3
\* Largest trial count of a direct generateSequence call (SeqSpec).
MaxSeqTrials == 51
\* Largest tau at which the hazard function is evaluated directly (HazSpec).
MaxTau == 60
\* click distances from the true state up to this many state units
MaxDist == 31
\* clicks a participant makes while an inter-trial timer is still pending
MaxEarlyClicks == 2
\* longest list of states given to calculateQuartileDistribution directly
MaxStates == 3
\* most trials of a document given to jsonToCSV
MaxTrials == 2
\* the screen widths 1..MaxWidth are among those the mapping is studied at
MaxWidth == 3
\* sampleBimodalTransition is studied on this many values of the stream
MaxStreams == 60
\* handleClick takes up to this many ms from reading the click's time to
\* logging the trial
MaxHandlerMs == 1
\* the trials a participant answers after pressing a start control again
MaxTrialsAfterRestart == 3

\* -------------------------------------------------------------- constants

STATE_RANGE == 300
LIKELIHOOD_HALF_WIDTH == 20
CHANGE_SIZE_HALF_WIDTH == 40
CHANGE_SEPARATION == 15
TUTORIAL_TRIALS == <<10, 10, 15, 15, 20>>
rngSeed == 12345
\* this.trialCount = 5 / selectedTrialCount = 5: the session's default count
DefaultTrialCount == 5
\* the linear congruential generator's multiplier and increment
LcgMultiplier == 1664525
LcgIncrement == 1013904223
\* "Every 50 trials" of the exploration gate
ExplorationPeriod == 50

\* JS null (tutorialPhase of a main sequence); phases are 1..5
null == 0 - 1
Conditions == {"HI", "HD"}
Gens == {1, 2}
TrialCounts == {0, DefaultTrialCount, MaxMain}

B8 == 2 ^ 8
B15 == 2 ^ 15
B16 == 2 ^ 16

\* A state value x (in state units) in fixed point.
Fixed(x) == x * 100
\* x * (p/100) for a fixed-point x: STATE_RANGE * 0.3 is Pct(Fixed(300), 30).
Pct(x, p) == (x * p) \div 100

\* ------------------------------------------------------------ probabilities

\* The doubles 0.1, 0.2, 0.3, 0.5 and 1.0, exactly (see the header).
Dbl01 == <<1677721, 10066329, 10092544>>
Dbl02 == <<3355443, 3355443, 3407872>>
Dbl03 == <<5033164, 13421772, 13369344>>
Dbl05 == <<8388608, 0, 0>>
Dbl1 == <<16777216, 0, 0>>

\* x < y on probabilities.
ProbLess(x, y) ==
    \/ x[1] < y[1]
    \/ x[1] = y[1] /\ x[2] < y[2]
    \/ x[1] = y[1] /\ x[2] = y[2] /\ x[3] < y[3]

ProbLeq(x, y) == x = y \/ ProbLess(x, y)

\* ------------------------------------------------------------ SeededRandom

\* new SeededRandom(seed): current = seed. `draws` counts the random() calls
\* made on the stream since its construction.
SeededRandom(seed) ==
    [hi |-> seed \div B16, lo |-> seed % B16, draws |-> 0]

\* The recurrence with the carry out of the low limb dropped.
LcgNextNoCarry(r) ==
    LET aHi == LcgMultiplier \div B16
        aLo == LcgMultiplier % B16
        cHi == LcgIncrement \div B16
        cLo == LcgIncrement % B16
        p0  == r.lo * aLo + cLo
        p1  == ((r.hi * aLo) % B16) + r.lo * aHi + cHi
    IN  [hi |-> p1 % B16, lo |-> p0 % B16, draws |-> r.draws + 1]

\* this.current = (this.current * 1664525 + 1013904223) % 2^32, on limbs.
LcgNext(r) ==
    LET aHi == LcgMultiplier \div B16
        aLo == LcgMultiplier % B16
        cHi == LcgIncrement \div B16
        cLo == LcgIncrement % B16
        p0  == r.lo * aLo + cLo
        p1  == ((r.hi * aLo) % B16) + r.lo * aHi + (p0 \div B16) + cHi
    IN  [hi |-> p1 % B16, lo |-> p0 % B16, draws |-> r.draws + 1]

\* this.current / 2^32, as a probability.
Uniform(r) == <<r.hi * B8 + (r.lo \div B8), (r.lo % B8) * B16, 0>>

\* random(): advances the stream and returns the new current / 2^32.
random(r) == LET n == LcgNext(r) IN [rng |-> n, u |-> Uniform(n)]

\* this.current * 1664525 + 1013904223 before the %, divided by 2^32: the
\* part of the sum that % Math.pow(2, 32) takes away.
ProductHigh(r) ==
    LET aHi == LcgMultiplier \div B16
        aLo == LcgMultiplier % B16
        cHi == LcgIncrement \div B16
        cLo == LcgIncrement % B16
        p0  == r.lo * aLo + cLo
        p1  == r.hi * aLo + r.lo * aHi + (p0 \div B16) + cHi
    IN  r.hi * aHi + (p1 \div B16)

\* A double holds every integer below 2^53: the sum of line 314 is computed
\* without rounding when it stays below 2^53, that is 2^21 * 2^32.
DoubleExact(r) == ProductHigh(r) < 2 ^ 21

\* ------------------------------------------------------ sampling primitives

RECURSIVE SqrtSearch(_, _, _)
\* The largest s in lo..hi with s*s <= x (lo*lo <= x is given).
SqrtSearch(x, lo, hi) ==
    IF lo = hi THEN lo
    ELSE LET mid == (lo + hi + 1) \div 2
         IN  IF mid * mid <= x THEN SqrtSearch(x, mid, hi)
                               ELSE SqrtSearch(x, lo, mid - 1)

\* floor(sqrt(x)) for 0 <= x <= 2^30.
ISqrt(x) == SqrtSearch(x, 0, B15)

\* Clamp with the lower bound forgotten: Math.min(this.STATE_RANGE, sample).
ClampTopOnly(sample) ==
    IF sample < Fixed(STATE_RANGE) THEN sample ELSE Fixed(STATE_RANGE)

\* Math.max(0, Math.min(this.STATE_RANGE, sample))
Clamp(sample) ==
    LET top == Fixed(STATE_RANGE)
        m   == IF sample < top THEN sample ELSE top
    IN  IF m > 0 THEN m ELSE 0

\* The sample with the sign of the square-root term slipped on the right side
\* of the triangle.
TriangularRawSignSlip(center, halfWidth, n) ==
    IF ProbLess(Uniform(n), Dbl05)
    THEN LET s == ISqrt(n.hi * B15 + (n.lo \div 2))
         IN  center - halfWidth + ((halfWidth * s) \div B15)
    ELSE LET s == ISqrt((B16 - 1 - n.hi) * B15 + ((B16 - n.lo) \div 2))
         IN  center + halfWidth + ((halfWidth * s) \div B15)

\* The sample before clamping, for the draw n (the stream after random()).
\* Math.sqrt(2*u) = sqrt(current / 2^31) is ISqrt(current div 2) / 2^15, and
\* Math.sqrt(2*(1-u)) = sqrt((2^32 - current) / 2^31) likewise.
TriangularRaw(center, halfWidth, n) ==
    IF ProbLess(Uniform(n), Dbl05)
    THEN LET s == ISqrt(n.hi * B15 + (n.lo \div 2))
         IN  center - halfWidth + ((halfWidth * s) \div B15)
    ELSE LET s == ISqrt((B16 - 1 - n.hi) * B15 + ((B16 - n.lo) \div 2))
         IN  center + halfWidth - ((halfWidth * s) \div B15)

\* sampleTriangular(center, halfWidth, rng): one draw, clamped.
sampleTriangular(center, halfWidth, r) ==
    LET d == random(r)
    IN  [rng |-> d.rng, value |-> Clamp(TriangularRaw(center, halfWidth, d.rng))]

\* sampleBimodalTransition choosing the lobe with its first draw and deciding
\* on the large jump with its second.
sampleBimodalTransitionLobeFirst(cs, r) ==
    LET d1 == random(r)
        d2 == random(d1.rng)
        center == IF ProbLess(d1.u, Dbl05)
                  THEN cs - Fixed(CHANGE_SEPARATION)
                  ELSE cs + Fixed(CHANGE_SEPARATION)
    IN  IF ProbLess(d2.u, Dbl02)
        THEN sampleTriangular(Fixed(STATE_RANGE) \div 2,
                              Fixed(STATE_RANGE) \div 3, d2.rng)
        ELSE sampleTriangular(center, Fixed(CHANGE_SIZE_HALF_WIDTH), d2.rng)

\* sampleBimodalTransition(currentState, rng)
sampleBimodalTransition(cs, r) ==
    LET d1 == random(r)
    IN  IF ProbLess(d1.u, Dbl02)
        THEN sampleTriangular(Fixed(STATE_RANGE) \div 2,
                              Fixed(STATE_RANGE) \div 3, d1.rng)
        ELSE LET d2 == random(d1.rng)
                 center == IF ProbLess(d2.u, Dbl05)
                           THEN cs - Fixed(CHANGE_SEPARATION)
                           ELSE cs + Fixed(CHANGE_SEPARATION)
             IN  sampleTriangular(center, Fixed(CHANGE_SIZE_HALF_WIDTH), d2.rng)

\* ------------------------------------------------------------ hazard models

\* 1 / (1 + Math.exp(-(tau - 10))) for tau = 0, 1, ..., 46, each the IEEE-754
\* binary64 value of the expression (Math.exp rounded to nearest, then the
\* addition and the division each rounded to nearest), written exactly.
\* From tau = 47 on, Math.exp(-(tau - 10)) <= 2^-53, so 1 + exp rounds to 1 and
\* the quotient is exactly 1.
HDHazardTable == <<
  <<761, 10902659, 12266496>>,
  <<2070, 3648281, 15868672>>,
  <<5626, 4052946, 16229888>>,
  <<15284, 15144382, 2298368>>,
  <<41483, 12294100, 30720>>,
  <<112287, 6805048, 16310272>>,
  <<301758, 8884464, 11583488>>,
  <<795674, 1984554, 2260992>>,
  <<1999893, 2862129, 11403264>>,
  <<4512088, 5329642, 1572864>>,
  <<8388608, 0, 0>>,
  <<12265127, 11447573, 15204352>>,
  <<14777322, 13915086, 4718592>>,
  <<15981541, 14792661, 15204352>>,
  <<16475457, 7892751, 5242880>>,
  <<16664928, 9972167, 1048576>>,
  <<16735732, 4483116, 524288>>,
  <<16761931, 1632833, 14680064>>,
  <<16771589, 12724269, 1048576>>,
  <<16775145, 13128934, 524288>>,
  <<16776454, 5874556, 4718592>>,
  <<16776935, 13365370, 5242880>>,
  <<16777112, 15399060, 15728640>>,
  <<16777178, 1309478, 14680064>>,
  <<16777202, 826691, 12582912>>,
  <<16777210, 14559473, 13107200>>,
  <<16777214, 1878599, 14680064>>,
  <<16777215, 5124327, 12058624>>,
  <<16777215, 12490357, 14680064>>,
  <<16777215, 15200169, 0>>,
  <<16777215, 16197052, 13631488>>,
  <<16777215, 16563785, 14680064>>,
  <<16777215, 16698699, 7340032>>,
  <<16777215, 16748331, 6291456>>,
  <<16777215, 16766589, 15728640>>,
  <<16777215, 16773306, 14680064>>,
  <<16777215, 16775777, 15728640>>,
  <<16777215, 16776686, 15728640>>,
  <<16777215, 16777021, 6291456>>,
  <<16777215, 16777144, 6291456>>,
  <<16777215, 16777189, 11534336>>,
  <<16777215, 16777206, 5242880>>,
  <<16777215, 16777212, 7340032>>,
  <<16777215, 16777214, 11534336>>,
  <<16777215, 16777215, 8388608>>,
  <<16777215, 16777215, 13631488>>,
  <<16777215, 16777215, 15728640>> >>

\* calculateHDHazard with the midpoint off by one: tau - 9.
calculateHDHazardShifted(tau) ==
    IF tau + 1 < Len(HDHazardTable) THEN HDHazardTable[tau + 2] ELSE Dbl1

\* calculateHDHazard(tau), tau >= 0
calculateHDHazard(tau) ==
    IF tau < Len(HDHazardTable) THEN HDHazardTable[tau + 1] ELSE Dbl1

\* The hazard computed from tau as it will be after an unchanged trial.
HazardAfterUpdate(condition, tau) ==
    IF condition = "HI" THEN Dbl01 ELSE calculateHDHazard(tau + 1)

\* The hazard with the two conditions' branches swapped.
HazardSwapped(condition, tau) ==
    IF condition = "HD" THEN Dbl01 ELSE calculateHDHazard(tau)

\* hazard = 0.1 for 'HI', this.calculateHDHazard(tau) otherwise
Hazard(condition, tau) ==
    IF condition = "HI" THEN Dbl01 ELSE calculateHDHazard(tau)

\* -------------------------------------------------------- generateSequence

\* The gate with t > 0 forgotten: isTutorial || t % 50 === 0.
ExplorationGateFromZero(isTutorial, t) ==
    isTutorial \/ t % ExplorationPeriod = 0

\* isTutorial || (t > 0 && t % 50 === 0)
ExplorationGate(isTutorial, t) ==
    isTutorial \/ (t > 0 /\ t % ExplorationPeriod = 0)

\* The targeted exploration move (the branch taken when the gate draw is
\* below explorationProb), from the stream r after the gate draw.
Explore(cs, r) ==
    LET range == Fixed(STATE_RANGE)
    IN  IF cs < Pct(range, 30)
        THEN sampleTriangular(Pct(range, 70), Pct(range, 20), r)
        ELSE IF cs > Pct(range, 70)
        THEN sampleTriangular(Pct(range, 30), Pct(range, 20), r)
        ELSE LET d == random(r)
             IN  IF ProbLess(d.u, Dbl05)
                 THEN sampleTriangular(Pct(range, 15), Pct(range, 10), d.rng)
                 ELSE sampleTriangular(Pct(range, 85), Pct(range, 10), d.rng)

\* The new state of a changed trial, from the stream r after the hazard draw.
Transition(cs, isTutorial, t, r) ==
    IF ExplorationGate(isTutorial, t)
    THEN LET g == random(r)
         IN  IF ProbLess(g.u, Dbl03)
             THEN Explore(cs, g.rng)
             ELSE sampleBimodalTransition(cs, g.rng)
    ELSE sampleBimodalTransition(cs, r)

\* likelihoodWidth with the isTutorial test forgotten.
LikelihoodWidthAnyPhase34(isTutorial, tutorialPhase) ==
    IF tutorialPhase = 3 \/ tutorialPhase = 4
    THEN Fixed(LIKELIHOOD_HALF_WIDTH) \div 2
    ELSE Fixed(LIKELIHOOD_HALF_WIDTH)

\* likelihoodWidth: LIKELIHOOD_HALF_WIDTH, halved in tutorial phases 3 and 4
LikelihoodWidth(isTutorial, tutorialPhase) ==
    IF isTutorial /\ (tutorialPhase = 3 \/ tutorialPhase = 4)
    THEN Fixed(LIKELIHOOD_HALF_WIDTH) \div 2
    ELSE Fixed(LIKELIHOOD_HALF_WIDTH)

\* TauUpdate with the reset on a change forgotten.
TauUpdateNoReset(changeFlag, tau0) == tau0 + 1

\* tau after the trial: 0 on a change, tau + 1 otherwise
TauUpdate(changeFlag, tau0) == IF changeFlag THEN 0 ELSE tau0 + 1

\* let currentState = this.rng.random() * this.STATE_RANGE, in fixed point:
\* floor(current * 30000 / 2^32)
InitialState(n) ==
    (n.hi * Fixed(STATE_RANGE) + ((n.lo * Fixed(STATE_RANGE)) \div B16)) \div B16

\* The iteration with the state resampled on every trial, changed or not.
TrialBodyResampling(a, t0, cs, tau0, r) ==
    LET hazard == Hazard(a.condition, tau0)
        h      == random(r)
        changeFlag == ProbLess(h.u, hazard)
        moved  == Transition(cs, a.isTutorial, t0, h.rng)
        tau1   == TauUpdate(changeFlag, tau0)
        width  == LikelihoodWidth(a.isTutorial, a.tutorialPhase)
        obs    == sampleTriangular(moved.value, width, moved.rng)
    IN  [rng |-> obs.rng, currentState |-> moved.value, tau |-> tau1,
         trial |-> [trial_idx |-> t0, condition |-> a.condition,
                    tau_true |-> tau1, change_flag |-> changeFlag,
                    s_t |-> moved.value, x_t |-> obs.value,
                    hazard_rate |-> hazard,
                    tutorial_phase |-> a.tutorialPhase,
                    is_tutorial |-> a.isTutorial,
                    likelihood_width |-> width]]

\* One iteration of the loop of generateSequence, for trial index t0, from the
\* stream r, the state cs and the counter tau0: the stream, state and counter
\* after it, and the trial record it pushes.
TrialBody(a, t0, cs, tau0, r) ==
    LET hazard == Hazard(a.condition, tau0)
        h      == random(r)
        changeFlag == ProbLess(h.u, hazard)
        moved  == IF changeFlag
                  THEN Transition(cs, a.isTutorial, t0, h.rng)
                  ELSE [rng |-> h.rng, value |-> cs]
        tau1   == TauUpdate(changeFlag, tau0)
        width  == LikelihoodWidth(a.isTutorial, a.tutorialPhase)
        obs    == sampleTriangular(moved.value, width, moved.rng)
    IN  [rng |-> obs.rng, currentState |-> moved.value, tau |-> tau1,
         trial |-> [trial_idx |-> t0, condition |-> a.condition,
                    tau_true |-> tau1, change_flag |-> changeFlag,
                    s_t |-> moved.value, x_t |-> obs.value,
                    hazard_rate |-> hazard,
                    tutorial_phase |-> a.tutorialPhase,
                    is_tutorial |-> a.isTutorial,
                    likelihood_width |-> width]]

\* ------------------------------------------------------- session assembler

Args(condition, nTrials, isTutorial, tutorialPhase) ==
    [condition |-> condition, nTrials |-> nTrials,
     isTutorial |-> isTutorial, tutorialPhase |-> tutorialPhase]

\* generateTutorialSequences with the phase passed zero-based.
generateTutorialSequencesZeroBased(condition) ==
    [phase \in 1..Len(TUTORIAL_TRIALS) |->
        Args(condition, TUTORIAL_TRIALS[phase], TRUE, phase - 1)]

\* generateTutorialSequences(condition): the generateSequence calls it makes
generateTutorialSequences(condition) ==
    [phase \in 1..Len(TUTORIAL_TRIALS) |->
        Args(condition, TUTORIAL_TRIALS[phase], TRUE, phase)]

\* generateMainSequence reading the default count instead of MAIN_TRIALS.
generateMainSequenceDefault(condition, mainTrials) ==
    Args(condition, DefaultTrialCount + 1, FALSE, null)

\* generateMainSequence(condition): the generateSequence call it makes
generateMainSequence(condition, mainTrials) ==
    Args(condition, mainTrials, FALSE, null)

\* generateAllSequences building each condition's main sequence before its
\* tutorials.
generateAllSequencesMainFirst(mainTrials) ==
    <<generateMainSequence("HI", mainTrials)>> \o generateTutorialSequences("HI")
    \o <<generateMainSequence("HD", mainTrials)>> \o generateTutorialSequences("HD")

\* generateAllSequences(): the generateSequence calls it makes, in order
generateAllSequences(mainTrials) ==
    generateTutorialSequences("HI") \o <<generateMainSequence("HI", mainTrials)>>
    \o generateTutorialSequences("HD") \o <<generateMainSequence("HD", mainTrials)>>

\* The object generateAllSequences returns, from the sequences in call order.
Assemble(seqs) ==
    LET k == Len(TUTORIAL_TRIALS)
    IN  [HI |-> [tutorials |-> SubSeq(seqs, 1, k), main |-> seqs[k + 1]],
         HD |-> [tutorials |-> SubSeq(seqs, k + 2, 2 * k + 1),
                 main |-> seqs[2 * k + 2]]]

\* ------------------------------------------------------------------- state

VARIABLES
    MAIN_TRIALS,   \* [Gens -> trial count]: this.MAIN_TRIALS of each generator
    rng,           \* [Gens -> stream]: this.rng of each generator
    calls,         \* [Gens -> Nat]: completed generateAllSequences calls
    sequences,     \* [Gens -> value returned by the first generateAllSequences]
    latest,        \* [Gens -> value returned by the last generateAllSequences]
    spans,         \* [Gens -> <<first draw, last draw>> of each sequence of the last call]
    pc,            \* "idle", "begin" (before line 98) or "loop" (line 101)
    self,          \* the generator whose method is running, 0 when idle
    plan,          \* the generateSequence calls still to make, the current one first
    single,        \* TRUE when generateSequence was called directly
    seqCalls,      \* direct generateSequence calls made
    t,             \* the loop variable of generateSequence
    currentState,  \* its local currentState
    tau,           \* its local tau
    trials,        \* its local trials
    firstDraw,     \* the stream's draw count when the running generateSequence began
    acc,           \* sequences returned so far to the running generateAllSequences
    hzPrev,        \* the calculateHDHazard call before the last: [tau, value]
    hzLast,        \* the last calculateHDHazard call: [tau, value]
    call,          \* the helper call under study: its name and its arguments
    result,        \* what that call returned, once it has returned
    experiment,    \* the NeuroStateExperiment object of the page
    experimentData,\* its experimentData: participantID, condition, trials
    timers,        \* inter-trial timers set by handleClick and not fired yet
    participant,   \* the participant: where they aim, their early clicks so far
    clock          \* performance.now() in ms, and the ms handleClick takes to log

vars == <<MAIN_TRIALS, rng, calls, sequences, latest, spans, pc, self, plan,
          single, seqCalls, t, currentState, tau, trials, firstDraw, acc,
          hzPrev, hzLast, call, result, experiment, experimentData, timers,
          participant, clock>>

genVars == <<MAIN_TRIALS, calls, sequences, latest, spans>>
hzVars == <<hzPrev, hzLast>>
\* no calculateHDHazard call made yet
NoCall == [tau |-> null, value |-> <<0, 0, 0>>]
loopVars == <<t, currentState, tau, trials, firstDraw>>
utilVars == <<call, result>>
sessVars == <<experiment, experimentData, timers, participant, clock>>
\* no helper call under study
NoHelper == [op |-> "none"]
\* the helper has not returned
Pending == [done |-> FALSE]
\* the helper returned v
Returns(v) == [done |-> TRUE, value |-> v]
\* no helper call is under study
HelperIdle ==
    /\ call = NoHelper
    /\ result = Pending
\* no page is loaded: there is no session
NoSession == [screen |-> "none"]
SessionAbsent ==
    /\ experiment = NoSession
    /\ experimentData = [trials |-> <<>>]
    /\ timers = 0
    /\ participant = [aim |-> "none", early |-> 0]
    /\ clock = [now |-> 0, step |-> 0]

\* A stream seeded differently in each instance (as from the clock).
NewRngPerInstance(g) == SeededRandom(rngSeed + g)

\* this.rng = new SeededRandom(this.rngSeed), in the constructor of generator g
NewRng(g) == SeededRandom(rngSeed)

\* new StimulusGenerator(trialCount) for each generator
Fresh(counts) ==
    /\ MAIN_TRIALS = counts
    /\ rng = [g \in Gens |-> NewRng(g)]
    /\ calls = [g \in Gens |-> 0]
    /\ sequences = [g \in Gens |-> <<>>]
    /\ latest = [g \in Gens |-> <<>>]
    /\ spans = [g \in Gens |-> <<>>]
    /\ pc = "idle"
    /\ self = 0
    /\ plan = <<>>
    /\ single = FALSE
    /\ seqCalls = 0
    /\ t = 0
    /\ currentState = 0
    /\ tau = 0
    /\ trials = <<>>
    /\ firstDraw = 0
    /\ acc = <<>>
    /\ hzPrev = NoCall
    /\ hzLast = NoCall

\* the generators constructed, no helper call under study, no session
Constructed(counts) ==
    /\ Fresh(counts)
    /\ HelperIdle
    /\ SessionAbsent

Init == \E counts \in [Gens -> TrialCounts] : Constructed(counts)

\* ----------------------------------------------------------------- actions

\* A call of generator g's generateAllSequences() (line 204).
CallGenerateAll(g) ==
    /\ pc = "idle"
    /\ calls[1] + calls[2] < MaxCalls
    /\ self' = g
    /\ plan' = generateAllSequences(MAIN_TRIALS[g])
    /\ single' = FALSE
    /\ acc' = <<>>
    /\ pc' = "begin"
    /\ UNCHANGED <<genVars, rng, seqCalls, loopVars, hzVars, utilVars, sessVars>>

\* generateSequence, lines 95-99: the initial state is drawn.
SequenceBegin ==
    /\ pc = "begin"
    /\ LET d == random(rng[self])
       IN  /\ rng' = [rng EXCEPT ![self] = d.rng]
           /\ currentState' = InitialState(d.rng)
    /\ firstDraw' = rng[self].draws
    /\ tau' = 0
    /\ t' = 0
    /\ trials' = <<>>
    /\ pc' = "loop"
    /\ UNCHANGED <<genVars, self, plan, single, seqCalls, acc, hzVars, utilVars, sessVars>>

\* generateSequence, lines 101-169: one iteration of the loop.
SequenceTrial ==
    /\ pc = "loop"
    /\ t < plan[1].nTrials
    /\ LET b == TrialBody(plan[1], t, currentState, tau, rng[self])
       IN  /\ rng' = [rng EXCEPT ![self] = b.rng]
           /\ currentState' = b.currentState
           /\ tau' = b.tau
           /\ trials' = Append(trials, b.trial)
    /\ t' = t + 1
    /\ UNCHANGED <<genVars, pc, self, plan, single, seqCalls, firstDraw, acc,
                   hzVars, utilVars, sessVars>>

\* generateSequence returns its trials (line 171) to generateTutorialSequences
\* or generateMainSequence; after the last one generateAllSequences returns.
SequenceReturn ==
    /\ pc = "loop"
    /\ ~single
    /\ t >= plan[1].nTrials
    /\ LET done == Append(acc, trials)
           span == <<firstDraw, rng[self].draws>>
       IN  IF Len(plan) > 1
           THEN /\ acc' = done
                /\ spans' = [spans EXCEPT ![self] =
                                IF acc = <<>> THEN <<span>> ELSE Append(@, span)]
                /\ plan' = Tail(plan)
                /\ pc' = "begin"
                /\ UNCHANGED <<self, calls, sequences, latest>>
           ELSE /\ acc' = <<>>
                /\ spans' = [spans EXCEPT ![self] = Append(@, span)]
                /\ plan' = <<>>
                /\ pc' = "idle"
                /\ self' = 0
                /\ calls' = [calls EXCEPT ![self] = @ + 1]
                /\ latest' = [latest EXCEPT ![self] = Assemble(done)]
                /\ sequences' = [sequences EXCEPT ![self] =
                                    IF calls[self] = 0 THEN Assemble(done) ELSE @]
    /\ UNCHANGED <<MAIN_TRIALS, rng, single, seqCalls, loopVars, hzVars, utilVars, sessVars>>

\* A direct call generateSequence(condition, nTrials, isTutorial, tutorialPhase)
\* on generator g (line 94).
CallGenerateSequence(g, a) ==
    /\ pc = "idle"
    /\ seqCalls < MaxSeqCalls
    /\ seqCalls' = seqCalls + 1
    /\ self' = g
    /\ plan' = <<a>>
    /\ single' = TRUE
    /\ pc' = "begin"
    /\ UNCHANGED <<genVars, rng, loopVars, acc, hzVars, utilVars, sessVars>>

\* A directly called generateSequence returns its trials to its caller
\* (line 171); its frame is gone.
DirectReturn ==
    /\ pc = "loop"
    /\ single
    /\ t >= plan[1].nTrials
    /\ pc' = "idle"
    /\ self' = 0
    /\ plan' = <<>>
    /\ single' = FALSE
    /\ t' = 0
    /\ currentState' = 0
    /\ tau' = 0
    /\ trials' = <<>>
    /\ firstDraw' = 0
    /\ UNCHANGED <<genVars, rng, seqCalls, acc, hzVars, utilVars, sessVars>>

\* A call calculateHDHazard(tau0) (line 81).
CallHazard(tau0) ==
    /\ pc = "idle"
    /\ hzPrev' = hzLast
    /\ hzLast' = [tau |-> tau0, value |-> calculateHDHazard(tau0)]
    /\ UNCHANGED <<genVars, rng, pc, self, plan, single, seqCalls, loopVars, acc,
                   utilVars, sessVars>>

\* The arguments of the direct generateSequence calls.
SeqTrialCounts == {0, 1, MaxSeqTrials}
SeqArgs ==
    {Args(c, n, tut, ph) : c \in Conditions, n \in SeqTrialCounts,
                           tut \in BOOLEAN, ph \in {null} \cup (1..5)}

Next ==
    \/ \E g \in Gens : CallGenerateAll(g)
    \/ SequenceBegin
    \/ SequenceTrial
    \/ SequenceReturn

Spec == Init /\ [][Next]_vars

\* Generators constructed with any integer as trial count, a negative one
\* included: the constructor stores what it is given (line 17).
AnyCounts == {0 - 1, 0 - MaxMain, DefaultTrialCount}

InitAny == \E counts \in [Gens -> AnyCounts] : Constructed(counts)

AnySpec == InitAny /\ [][Next]_vars

\* generateSequence called directly, any number of times, on one generator.
InitSeq == Constructed([g \in Gens |-> DefaultTrialCount])

NextSeq ==
    \/ \E a \in SeqArgs : CallGenerateSequence(1, a)
    \/ SequenceBegin
    \/ SequenceTrial
    \/ DirectReturn

SeqSpec == InitSeq /\ [][NextSeq]_vars

\* calculateHDHazard called directly.
NextHaz == \E tau0 \in 0..MaxTau : CallHazard(tau0)

HazSpec == InitSeq /\ [][NextHaz]_vars

\* --------------------------------------------------------- StimulusHelpers
\* Points are kept in hundredths of a point, like states: 1 is Fixed(1).
FullPoints == Fixed(1)
PartialPoints == Fixed(1) \div 4
\* baseRadius = 10, the default parameter of calculatePoints (line 346)
DefaultRadius == 10

\* StimulusHelpers.calculateDistance (line 335)
calculateDistance(point1, point2) ==
    IF point1 >= point2 THEN point1 - point2 ELSE point2 - point1

\* The tiers with their boundaries left out.
calculatePointsStrict(clickX, trueState, baseRadius) ==
    LET distance == calculateDistance(clickX, trueState)
    IN  IF distance < baseRadius THEN FullPoints
        ELSE IF distance < baseRadius * 2 THEN PartialPoints
        ELSE 0

\* StimulusHelpers.calculatePoints (line 346)
calculatePoints(clickX, trueState, baseRadius) ==
    LET distance == calculateDistance(clickX, trueState)
    IN  IF distance <= baseRadius THEN FullPoints
        ELSE IF distance <= baseRadius * 2 THEN PartialPoints
        ELSE 0

\* The calls of calculatePoints under study: a true state, an estimate at
\* every hundredth up to MaxDist units on either side of it, a radius.
PointsCalls ==
    [op : {"calculatePoints"},
     trueState : {0, Fixed(100), Fixed(STATE_RANGE)},
     offset : (0 - Fixed(MaxDist))..Fixed(MaxDist),
     baseRadius : {Fixed(DefaultRadius), Fixed(DefaultRadius) \div 2}]

\* calculatePoints is applied to the arguments drawn.
ApplyPoints ==
    /\ call.op = "calculatePoints"
    /\ ~result.done
    /\ result' = Returns(calculatePoints(call.trueState + call.offset,
                                         call.trueState, call.baseRadius))
    /\ UNCHANGED <<genVars, rng, pc, self, plan, single, seqCalls, loopVars, acc,
                   hzVars, call, sessVars>>

\* ------------------------------------------------------ coverage analysis
\* The numbers a double holds that are not reals.
NaN == "NaN"
Infinity == "Infinity"
MinusInfinity == "-Infinity"

\* how many entries of the list xs satisfy Test
CountIf(xs, Test(_)) == Cardinality({i \in 1..Len(xs) : Test(xs[i])})

\* (count / total * 100).toFixed(1), in tenths of a percent
Percentage(count, total) ==
    IF total = 0 THEN NaN
    ELSE (count * 2000 + total) \div (2 * total)

\* The quartile tests with the bin boundaries left out.
calculateQuartileDistributionOpen(states) ==
    LET q1 == Pct(Fixed(STATE_RANGE), 25)
        q2 == Pct(Fixed(STATE_RANGE), 50)
        q3 == Pct(Fixed(STATE_RANGE), 75)
        in1(x) == x < q1
        in2(x) == x > q1 /\ x < q2
        in3(x) == x > q2 /\ x < q3
        in4(x) == x > q3
        distribution == [q1 |-> CountIf(states, in1), q2 |-> CountIf(states, in2),
                         q3 |-> CountIf(states, in3), q4 |-> CountIf(states, in4)]
        total == Len(states)
    IN  [counts |-> distribution,
         percentages |-> [q \in DOMAIN distribution |->
                             Percentage(distribution[q], total)]]

\* calculateQuartileDistribution (line 277)
calculateQuartileDistribution(states) ==
    LET q1 == Pct(Fixed(STATE_RANGE), 25)
        q2 == Pct(Fixed(STATE_RANGE), 50)
        q3 == Pct(Fixed(STATE_RANGE), 75)
        in1(x) == x < q1
        in2(x) == x >= q1 /\ x < q2
        in3(x) == x >= q2 /\ x < q3
        in4(x) == x >= q3
        distribution == [q1 |-> CountIf(states, in1), q2 |-> CountIf(states, in2),
                         q3 |-> CountIf(states, in3), q4 |-> CountIf(states, in4)]
        total == Len(states)
    IN  [counts |-> distribution,
         percentages |-> [q \in DOMAIN distribution |->
                             Percentage(distribution[q], total)]]

\* Math.min(...xs) and Math.max(...xs)
RECURSIVE MathMin(_)
MathMin(xs) ==
    IF xs = <<>> THEN Infinity
    ELSE IF Len(xs) = 1 THEN xs[1]
    ELSE LET m == MathMin(Tail(xs)) IN IF xs[1] < m THEN xs[1] ELSE m

RECURSIVE MathMax(_)
MathMax(xs) ==
    IF xs = <<>> THEN MinusInfinity
    ELSE IF Len(xs) = 1 THEN xs[1]
    ELSE LET m == MathMax(Tail(xs)) IN IF xs[1] > m THEN xs[1] ELSE m

\* xs.reduce((a, b) => a + b, 0)
RECURSIVE Sum(_)
Sum(xs) == IF xs = <<>> THEN 0 ELSE xs[1] + Sum(Tail(xs))

\* The min, max, mean and coverage analyzeStateCoverage reports for a list.
RangeOf(xs) ==
    [min |-> MathMin(xs),
     max |-> MathMax(xs),
     mean |-> IF xs = <<>> THEN NaN ELSE Sum(xs) \div Len(xs),
     coverage |-> IF xs = <<>> THEN MinusInfinity
                  ELSE ((MathMax(xs) - MathMin(xs)) * Fixed(1))
                       \div Fixed(STATE_RANGE)]

\* analyzeStateCoverage(sequences): the analysis it returns (line 242)
analyzeStateCoverage(seqs) ==
    [condition \in Conditions |->
        LET mainTrials == seqs[condition].main
            states == [i \in 1..Len(mainTrials) |-> mainTrials[i].s_t]
            observations == [i \in 1..Len(mainTrials) |-> mainTrials[i].x_t]
        IN  [stateRange |-> RangeOf(states),
             observationRange |-> RangeOf(observations),
             quartileDistribution |-> calculateQuartileDistribution(states)]]

\* An analysis that samples the stream of its generator.
AnalyzeCoverageSampling(g) ==
    /\ pc = "idle"
    /\ calls[g] > 0
    /\ call' = [op |-> "analyzeStateCoverage", generator |-> g, after |-> calls[g]]
    /\ result' = Returns(analyzeStateCoverage(latest[g]))
    /\ rng' = [rng EXCEPT ![g] = LcgNext(@)]
    /\ UNCHANGED <<genVars, pc, self, plan, single, seqCalls, loopVars, acc,
                   hzVars, sessVars>>

\* A call analyzeStateCoverage(sequences) on generator g, given what its last
\* generateAllSequences returned, the calls[g]-th. It reads its argument and
\* the constant STATE_RANGE, and writes nothing but its own locals.
AnalyzeCoverage(g) ==
    /\ pc = "idle"
    /\ calls[g] > 0
    /\ call' = [op |-> "analyzeStateCoverage", generator |-> g, after |-> calls[g]]
    /\ result' = Returns(analyzeStateCoverage(latest[g]))
    /\ UNCHANGED <<genVars, rng, pc, self, plan, single, seqCalls, loopVars, acc,
                   hzVars, sessVars>>

\* Generators with a main count of 0 or the default, analysed at any time
\* between their generateAllSequences calls.
InitCov ==
    \E counts \in [Gens -> {0, DefaultTrialCount}] : Constructed(counts)

NextCov ==
    \/ \E g \in Gens : CallGenerateAll(g)
    \/ SequenceBegin
    \/ SequenceTrial
    \/ SequenceReturn
    \/ \E g \in Gens : AnalyzeCoverage(g)

CovSpec == InitCov /\ [][NextCov]_vars

\* The states given to calculateQuartileDistribution directly: the ends of
\* the range, each bin boundary and the hundredth below it.
QuartileStates ==
    {0, Fixed(STATE_RANGE)}
    \cup {Pct(Fixed(STATE_RANGE), p) - d : p \in {25, 50, 75}, d \in {0, 1}}

QuartileCalls ==
    [op : {"calculateQuartileDistribution"},
     states : UNION {[1..n -> QuartileStates] : n \in 0..MaxStates}]

\* calculateQuartileDistribution is applied to the list drawn.
ApplyQuartile ==
    /\ call.op = "calculateQuartileDistribution"
    /\ ~result.done
    /\ result' = Returns(calculateQuartileDistribution(call.states))
    /\ UNCHANGED <<genVars, rng, pc, self, plan, single, seqCalls, loopVars, acc,
                   hzVars, call, sessVars>>

\* ------------------------------------------------------------- CSV export
\* ExperimentUtils.jsonToCSV (README.md, lines 225-260). A text is the
\* sequence of its characters. A JavaScript value is a record: its type, and
\* its text, truth value or number according to the type.
Comma == ","
Quote == "\""
Newline == "\n"

Str(text) == [type |-> "string", text |-> text, flag |-> FALSE, num |-> 0]
Bool(flag) == [type |-> "boolean", text |-> <<>>, flag |-> flag, num |-> 0]
Num(num) == [type |-> "number", text |-> <<>>, flag |-> FALSE, num |-> num]
Null == [type |-> "object", text |-> <<>>, flag |-> FALSE, num |-> 0]

\* value.includes(c) for a text
Includes(text, c) == \E i \in 1..Len(text) : text[i] = c

\* the decimal digits of a natural number: String(n)
RECURSIVE Digits(_)
Digits(n) ==
    LET d == <<"0", "1", "2", "3", "4", "5", "6", "7", "8", "9">>[(n % 10) + 1]
    IN  IF n < 10 THEN <<d>> ELSE Append(Digits(n \div 10), d)

\* the text Array.prototype.join writes for an element: nothing for null and
\* undefined, String(element) otherwise
JoinText(v) ==
    IF v.type = "string" THEN v.text
    ELSE IF v.type = "number" THEN Digits(v.num)
    ELSE IF v.type = "boolean"
         THEN (IF v.flag THEN <<"t", "r", "u", "e">> ELSE <<"f", "a", "l", "s", "e">>)
    ELSE <<>>

\* elements.join(sep)
RECURSIVE Join(_, _)
Join(elements, sep) ==
    IF elements = <<>> THEN <<>>
    ELSE IF Len(elements) = 1 THEN JoinText(elements[1])
    ELSE JoinText(elements[1]) \o <<sep>> \o Join(Tail(elements), sep)

\* The callback without the quoting of strings that hold a comma.
CellOfUnquoted(value) ==
    IF value.type = "boolean" THEN Str(IF value.flag THEN <<"1">> ELSE <<"0">>)
    ELSE value

\* the callback of headers.map (lines 239-253): what a value is replaced by
CellOf(value) ==
    IF value.type = "string" /\ Includes(value.text, Comma)
    THEN Str(<<Quote>> \o value.text \o <<Quote>>)
    ELSE IF value.type = "boolean"
    THEN Str(IF value.flag THEN <<"1">> ELSE <<"0">>)
    ELSE value

\* The texts of the two column names jsonToCSV adds.
TextParticipantID == <<"p", "a", "r", "t", "i", "c", "i", "p", "a", "n", "t", "I", "D">>
TextCondition == <<"c", "o", "n", "d", "i", "t", "i", "o", "n">>

\* A trial object: its keys in insertion order and its value under each.
\* headers.map(header => ...) over a trial
RowOf(jsonData, headers, trial) ==
    <<Str(jsonData.participantID), Str(jsonData.condition)>>
    \o [k \in 1..Len(headers) |-> CellOf(trial.values[k])]

\* jsonToCSV without its header row.
jsonToCSVNoHeader(jsonData) ==
    IF jsonData.trials = <<>> THEN <<>>
    ELSE LET headers == jsonData.trials[1].keys
             csvRows == [i \in 1..Len(jsonData.trials) |->
                            Str(Join(RowOf(jsonData, headers, jsonData.trials[i]),
                                     Comma))]
         IN  Join(csvRows, Newline)

\* jsonToCSV(jsonData): the text it returns
jsonToCSV(jsonData) ==
    IF jsonData.trials = <<>> THEN <<>>
    ELSE LET headers == jsonData.trials[1].keys
             headerRow == <<Str(TextParticipantID), Str(TextCondition)>>
                          \o [k \in 1..Len(headers) |-> Str(headers[k])]
             csvRows == <<Str(Join(headerRow, Comma))>>
                        \o [i \in 1..Len(jsonData.trials) |->
                               Str(Join(RowOf(jsonData, headers, jsonData.trials[i]),
                                        Comma))]
         IN  Join(csvRows, Newline)

\* The values a field of a logged trial takes: a string with and without a
\* comma and one with a quote, a number, null.
FieldValues ==
    {Str(<<"a">>), Str(<<"a", Comma, "b">>), Str(<<"a", Quote>>), Num(42), Null}

\* The keys of the trials of a document.
TrialKeys == <<<<"t", "r", "i", "a", "l", "_", "i", "d", "x">>, <<"c", "h", "a", "n", "g", "e", "_", "f", "l", "a", "g">>, <<"n", "o", "t", "e">>>>

\* A document as the session builds it, of n trials: participantID and
\* condition as the constructor sets them, trial i with trial_idx i - 1, a
\* boolean and a field of any kind.
Documents(n) ==
    {[participantID |-> <<"P", "0", "1", "2", "3", "4">>, condition |-> c,
      trials |-> [i \in 1..n |-> [keys |-> TrialKeys,
                                  values |-> <<Num(i - 1), Bool(fs[i][1]), fs[i][2]>>]]] :
        c \in {<<"H", "I">>, <<"H", "D">>},
        fs \in [1..n -> BOOLEAN \X FieldValues]}

CsvCalls ==
    [op : {"jsonToCSV"}, jsonData : UNION {Documents(n) : n \in 0..MaxTrials}]

\* jsonToCSV is applied to the document drawn.
ApplyCsv ==
    /\ call.op = "jsonToCSV"
    /\ ~result.done
    /\ result' = Returns(jsonToCSV(call.jsonData))
    /\ UNCHANGED <<genVars, rng, pc, self, plan, single, seqCalls, loopVars, acc,
                   hzVars, call, sessVars>>

\* ----------------------------------- coordinate mapping, in double precision
\* ExperimentUtils.stateToScreen and screenToState (README.md, lines 174-186)
\* as JavaScript computes them, on IEEE-754 binary64 numbers. A double is 0
\* or [bits, exp]: the 53 bits of its significand, the highest (a 1) first,
\* read as an integer, times 2^exp. Each operation returns the exact result
\* rounded to the nearest double, ties to even.

\* this.canvasWidth = 800 (part_000, line 32)
canvasWidth == 800
\* the literal range of stateToScreen and screenToState (README.md, 175, 185)
ScreenRange == 300
\* the bits of a significand
SignificandBits == 53
\* significands are multiplied and divided in limbs of LimbBits bits
LimbBits == 14
Limb == 2 ^ LimbBits

DblZero == [bits |-> <<>>, exp |-> 0]

Zeros(n) == [i \in 1..n |-> 0]

\* the binary digits of a natural number, the highest first; none for 0
RECURSIVE NatBits(_)
NatBits(n) == IF n = 0 THEN <<>> ELSE Append(NatBits(n \div 2), n % 2)

\* bits without its leading zeros
StripZeros(bits) ==
    IF \A i \in 1..Len(bits) : bits[i] = 0 THEN <<>>
    ELSE LET first == CHOOSE i \in 1..Len(bits) :
                          bits[i] = 1 /\ \A j \in 1..(i - 1) : bits[j] = 0
         IN  SubSeq(bits, first, Len(bits))

\* The integer bits (a leading 1) times 2^exp, plus a fraction of 2^exp that
\* is not zero when sticky, rounded to the nearest double, ties to even.
RoundToDouble(bits, exp, sticky) ==
    LET len == Len(bits)
    IN  IF len = 0 THEN DblZero
        ELSE IF len <= SignificandBits
        THEN [bits |-> bits \o Zeros(SignificandBits - len),
              exp |-> exp - (SignificandBits - len)]
        ELSE LET kept == SubSeq(bits, 1, SignificandBits)
                 half == bits[SignificandBits + 1] = 1
                 rest == sticky \/ \E i \in (SignificandBits + 2)..len : bits[i] = 1
                 up   == half /\ (rest \/ kept[SignificandBits] = 1)
                 e    == exp + (len - SignificandBits)
             IN  IF ~up THEN [bits |-> kept, exp |-> e]
                 ELSE IF \A i \in 1..SignificandBits : kept[i] = 1
                 THEN [bits |-> <<1>> \o Zeros(SignificandBits - 1), exp |-> e + 1]
                 ELSE LET z == CHOOSE i \in 1..SignificandBits :
                                   kept[i] = 0
                                   /\ \A j \in (i + 1)..SignificandBits : kept[j] = 1
                      IN  [bits |-> [i \in 1..SignificandBits |->
                                        IF i < z THEN kept[i]
                                        ELSE IF i = z THEN 1 ELSE 0],
                           exp |-> e]

\* the double of n / 2^scale for a natural number n
DblOf(n, scale) == RoundToDouble(NatBits(n), 0 - scale, FALSE)

\* the integer a list of at most LimbBits bits stands for
RECURSIVE ValueOfBits(_)
ValueOfBits(bits) ==
    IF bits = <<>> THEN 0
    ELSE 2 * ValueOfBits(SubSeq(bits, 1, Len(bits) - 1)) + bits[Len(bits)]

\* the four limbs of a significand, the highest first
LimbsOf(bits) ==
    LET padded == Zeros(4 * LimbBits - SignificandBits) \o bits
    IN  [j \in 1..4 |->
            ValueOfBits(SubSeq(padded, LimbBits * (j - 1) + 1, LimbBits * j))]

\* the bits of a list of limbs, the highest first
BitsOfLimbs(limbs) ==
    [i \in 1..(LimbBits * Len(limbs)) |->
        LET limb == limbs[((i - 1) \div LimbBits) + 1]
            pos  == (i - 1) % LimbBits
        IN  (limb \div (2 ^ (LimbBits - 1 - pos))) % 2]

\* the limbs of m * k for a significand m and a whole number k < 2^16
TimesLimbs(m, k) ==
    LET t4 == m[4] * k
        t3 == m[3] * k + (t4 \div Limb)
        t2 == m[2] * k + (t3 \div Limb)
        t1 == m[1] * k + (t2 \div Limb)
    IN  <<t1 \div Limb, t1 % Limb, t2 % Limb, t3 % Limb, t4 % Limb>>

\* m * 2^(2 * LimbBits) divided by a whole number k, 0 < k < 2^16, for a
\* significand m: the limbs of the quotient, and the remainder
DivideLimbs(m, k) ==
    LET r1 == m[1]
        r2 == (r1 % k) * Limb + m[2]
        r3 == (r2 % k) * Limb + m[3]
        r4 == (r3 % k) * Limb + m[4]
        r5 == (r4 % k) * Limb
        r6 == (r5 % k) * Limb
    IN  [quotient |-> <<r1 \div k, r2 \div k, r3 \div k, r4 \div k, r5 \div k,
                        r6 \div k>>,
         remainder |-> r6 % k]

\* x * k for a double x >= 0 and a whole number k, 0 <= k < 2^16
DblTimes(x, k) ==
    IF x = DblZero \/ k = 0 THEN DblZero
    ELSE RoundToDouble(StripZeros(BitsOfLimbs(TimesLimbs(LimbsOf(x.bits), k))),
                       x.exp, FALSE)

\* x / k for a double x >= 0 and a whole number k, 0 < k < 2^16
DblOver(x, k) ==
    IF x = DblZero THEN DblZero
    ELSE LET d == DivideLimbs(LimbsOf(x.bits), k)
         IN  RoundToDouble(StripZeros(BitsOfLimbs(d.quotient)),
                           x.exp - 2 * LimbBits, d.remainder # 0)

\* x <= y on doubles >= 0
DblLeq(x, y) ==
    \/ x = DblZero
    \/ /\ y # DblZero
       /\ \/ x.exp < y.exp
          \/ /\ x.exp = y.exp
             /\ \/ x.bits = y.bits
                \/ \E i \in 1..SignificandBits :
                      /\ x.bits[i] < y.bits[i]
                      /\ \A j \in 1..(i - 1) : x.bits[j] = y.bits[j]

\* the next double above x > 0
DblSucc(x) ==
    RoundToDouble(x.bits \o <<1, 1>>, x.exp - 2, FALSE)

\* the next double below x > 0
DblPred(x) ==
    IF \A i \in 2..SignificandBits : x.bits[i] = 0
    THEN [bits |-> [i \in 1..SignificandBits |-> 1], exp |-> x.exp - 1]
    ELSE LET o == CHOOSE i \in 1..SignificandBits :
                      x.bits[i] = 1 /\ \A j \in (i + 1)..SignificandBits : x.bits[j] = 0
         IN  [bits |-> [i \in 1..SignificandBits |->
                           IF i < o THEN x.bits[i] ELSE IF i = o THEN 0 ELSE 1],
              exp |-> x.exp]

\* screenToState without the division by the width.
screenToStateDoubleUnscaled(screenX, screenWidth) ==
    DblTimes(screenX, ScreenRange)

\* ExperimentUtils.stateToScreen: (stateValue / 300) * screenWidth
stateToScreenDouble(stateValue, screenWidth) ==
    DblTimes(DblOver(stateValue, ScreenRange), screenWidth)

\* ExperimentUtils.screenToState: (screenX / screenWidth) * 300
screenToStateDouble(screenX, screenWidth) ==
    DblTimes(DblOver(screenX, screenWidth), ScreenRange)

\* The widths of the mapping under study: the first few whole numbers, a
\* width that is no divisor of a power of two times 300, and the canvas's.
ScreenWidths == (1..MaxWidth) \cup {640, canvasWidth}

\* The calls under study: a state in quarters of a unit over [0, 300] is
\* mapped to the screen and the coordinate got is mapped back.
MappingCalls ==
    [op : {"stateToScreen"},
     quarters : 0..(4 * STATE_RANGE),
     screenWidth : ScreenWidths]

\* stateToScreen is applied to the state drawn and screenToState to what it
\* returns.
ApplyMapping ==
    /\ call.op = "stateToScreen"
    /\ ~result.done
    /\ LET screenX == stateToScreenDouble(DblOf(call.quarters, 2), call.screenWidth)
       IN  result' = Returns([screenX |-> screenX,
                              state |-> screenToStateDouble(screenX, call.screenWidth)])
    /\ UNCHANGED <<genVars, rng, pc, self, plan, single, seqCalls, loopVars, acc,
                   hzVars, call, sessVars>>

\* ------------------------------------------- sampleBimodalTransition, alone
\* The k-th of MaxStreams values of this.rng.current spread over [0, 2^32).
\* The recurrence of line 314 has the full period 2^32 (its increment is
\* odd, its multiplier is 1 modulo 4), so a generator's stream reaches each
\* of them; draws is counted from there.
StreamAt(k) ==
    [hi |-> (k * B16) \div MaxStreams, lo |-> rngSeed, draws |-> 0]

\* The calls of sampleBimodalTransition under study: from a state at either
\* end of the range, near an end or in the middle, on each of those streams.
BimodalCalls ==
    [op : {"sampleBimodalTransition"},
     currentState : {0, Fixed(10), Fixed(STATE_RANGE) \div 2,
                     Fixed(STATE_RANGE) - Fixed(10), Fixed(STATE_RANGE)},
     stream : 0..(MaxStreams - 1)]

\* sampleBimodalTransition is applied to the state and the stream drawn.
ApplyBimodal ==
    /\ call.op = "sampleBimodalTransition"
    /\ ~result.done
    /\ result' = Returns(sampleBimodalTransition(call.currentState,
                                                 StreamAt(call.stream)))
    /\ UNCHANGED <<genVars, rng, pc, self, plan, single, seqCalls, loopVars, acc,
                   hzVars, call, sessVars>>

\* One helper call, its arguments drawn at the start.
InitUtil ==
    /\ Fresh([g \in Gens |-> DefaultTrialCount])
    /\ SessionAbsent
    /\ result = Pending
    /\ \/ call \in PointsCalls
       \/ call \in QuartileCalls
       \/ call \in CsvCalls
       \/ call \in MappingCalls
       \/ call \in BimodalCalls

NextUtil ==
    \/ ApplyPoints
    \/ ApplyQuartile
    \/ ApplyCsv
    \/ ApplyMapping
    \/ ApplyBimodal

UtilSpec == InitUtil /\ [][NextUtil]_vars

\* ------------------------------------------------------------ the session
\* NeuroStateExperiment (unnamed/part_000) with the ExperimentUtils helpers it
\* calls (README.md, lines 159-260). JavaScript runs each handler to its end,
\* so every handler is one action; the canvas animation only draws and keeps
\* the display list pastDots, which nothing else reads, and is left out.

\* the last tutorial phase: tutorialPhase < 5 (part_000, line 544)
LastTutorialPhase == 5
\* the most a click earns: 100 - floor(2 * distance) (README.md, line 198)
MaxClickPoints == 100
\* this.interTrialInterval = 100, in ms (part_000, line 49)
interTrialInterval == 100

\* ExperimentUtils.stateToScreen, in hundredths of a pixel
stateToScreen(stateValue, screenWidth) ==
    (stateValue * screenWidth) \div ScreenRange

\* ExperimentUtils.screenToState, from hundredths of a pixel
screenToState(screenX, screenWidth) ==
    (screenX * ScreenRange) \div screenWidth

\* ExperimentUtils.calculatePoints: max(0, 100 - floor(distance * 2)) points
ExperimentUtils_calculatePoints(clickX, trueState) ==
    LET distance == IF clickX >= trueState THEN clickX - trueState
                    ELSE trueState - clickX
        points == MaxClickPoints - ((distance * 2) \div Fixed(1))
    IN  Fixed(IF points > 0 THEN points ELSE 0)

\* ExperimentUtils.generateParticipantID: one of its 100000 values
ParticipantID == "P01234"

\* new NeuroStateExperiment() with condition c from getRandomCondition; the
\* field generator is the generator whose generateAllSequences() value
\* this.sequences holds, 0 while it holds none
NewExperiment(c) ==
    [participantID |-> ParticipantID, condition |-> c, blockIdx |-> 0,
     trialIdx |-> 0, totalScore |-> 0, currentTrial |-> null,
     currentTrials |-> <<>>, tutorialPhase |-> 0, isTutorial |-> TRUE,
     showPastDotsFlag |-> FALSE, showTrueState |-> FALSE,
     screen |-> "instructions", canvasListening |-> TRUE, completions |-> 0,
     generator |-> 0]

\* endExperiment that only removes the canvas listeners.
endExperimentHidden(e) ==
    [e EXCEPT !.canvasListening = FALSE]

\* endExperiment: the completion screen is shown, the download listeners are
\* added once more, the canvas listeners are removed
endExperiment(e) ==
    [e EXCEPT !.screen = "completion", !.completions = @ + 1,
              !.canvasListening = FALSE]

RECURSIVE startTrial(_, _)

\* startBlock: the block's sequence is taken from this.sequences
startBlock(e, seqs) ==
    startTrial([e EXCEPT !.currentTrials =
                             IF e.isTutorial
                             THEN seqs[e.condition].tutorials[e.tutorialPhase]
                             ELSE seqs[e.condition].main,
                         !.trialIdx = 0], seqs)

\* startMainExperiment leaving showTrueState as the tutorial set it.
startMainExperimentKeepingTrueState(e, seqs) ==
    startBlock([e EXCEPT !.isTutorial = FALSE, !.tutorialPhase = null,
                         !.blockIdx = 0], seqs)

\* startMainExperiment
startMainExperiment(e, seqs) ==
    startBlock([e EXCEPT !.isTutorial = FALSE, !.tutorialPhase = null,
                         !.blockIdx = 0, !.showTrueState = FALSE], seqs)

\* endBlock leaving the tutorial one phase early.
endBlockEarlyMain(e, seqs) ==
    IF e.isTutorial
    THEN IF e.tutorialPhase < LastTutorialPhase - 1
         THEN startBlock([e EXCEPT !.tutorialPhase = @ + 1,
                                   !.showTrueState =
                                       IF e.tutorialPhase + 1 >= 2 THEN TRUE ELSE @],
                         seqs)
         ELSE startMainExperiment(e, seqs)
    ELSE endExperiment(e)

\* endBlock
endBlock(e, seqs) ==
    IF e.isTutorial
    THEN IF e.tutorialPhase < LastTutorialPhase
         THEN startBlock([e EXCEPT !.tutorialPhase = @ + 1,
                                   !.showTrueState =
                                       IF e.tutorialPhase + 1 >= 2 THEN TRUE ELSE @],
                         seqs)
         ELSE startMainExperiment(e, seqs)
    ELSE endExperiment(e)

\* startTrial
startTrial(e, seqs) ==
    IF e.trialIdx >= Len(e.currentTrials)
    THEN endBlock(e, seqs)
    ELSE [e EXCEPT !.currentTrial = e.currentTrials[e.trialIdx + 1]]

\* startTutorial
startTutorial(e, seqs) ==
    startBlock([e EXCEPT !.isTutorial = TRUE, !.tutorialPhase = 1,
                         !.showTrueState = FALSE], seqs)

\* animateSnowball and drawPointer: the red dot of the true state is drawn
\* if (this.isTutorial && this.showTrueState) (part_000, lines 307 and 448)
drawsTrueState(e) == e.isTutorial /\ e.showTrueState

\* rt_ms the other way round: the time from the click to the logging.
rt_msElapsed(clickTime, logTime) == logTime - clickTime

\* rt_ms: clickTime - performance.now() (part_000, line 516), for the value
\* logTime that performance.now() returns there
rt_ms(clickTime, logTime) == clickTime - logTime

\* The record with the observation logged in the place of the state.
TrialDataObservationTwice(e, data, clickState, points, clickTime, logTime) ==
    [pid |-> e.participantID, condition |-> e.condition,
     block_idx |-> e.blockIdx, trial_idx |-> e.trialIdx,
     tau_true |-> e.currentTrial.tau_true,
     change_flag |-> e.currentTrial.change_flag,
     s_t |-> e.currentTrial.x_t, x_t |-> e.currentTrial.x_t,
     click_x |-> clickState,
     rt_ms |-> rt_ms(clickTime, logTime),
     repeated_click_flag |->
         IF data.trials = <<>> THEN FALSE
         ELSE clickState = data.trials[Len(data.trials)].click_x,
     points_awarded |-> points,
     score_total_at_checkpoint |-> e.totalScore + points,
     show_past_dots_flag |-> e.showPastDotsFlag,
     tutorial_phase |-> e.tutorialPhase]

\* The record with the score read before the points of the click are added.
TrialDataScoreBefore(e, data, clickState, points, clickTime, logTime) ==
    [pid |-> e.participantID, condition |-> e.condition,
     block_idx |-> e.blockIdx, trial_idx |-> e.trialIdx,
     tau_true |-> e.currentTrial.tau_true,
     change_flag |-> e.currentTrial.change_flag,
     s_t |-> e.currentTrial.s_t, x_t |-> e.currentTrial.x_t,
     click_x |-> clickState,
     rt_ms |-> rt_ms(clickTime, logTime),
     repeated_click_flag |->
         IF data.trials = <<>> THEN FALSE
         ELSE clickState = data.trials[Len(data.trials)].click_x,
     points_awarded |-> points,
     score_total_at_checkpoint |-> e.totalScore,
     show_past_dots_flag |-> e.showPastDotsFlag,
     tutorial_phase |-> e.tutorialPhase]

\* The record handleClick logs for a click at clickState earning points, made
\* at clickTime and logged at logTime.
TrialData(e, data, clickState, points, clickTime, logTime) ==
    [pid |-> e.participantID, condition |-> e.condition,
     block_idx |-> e.blockIdx, trial_idx |-> e.trialIdx,
     tau_true |-> e.currentTrial.tau_true,
     change_flag |-> e.currentTrial.change_flag,
     s_t |-> e.currentTrial.s_t, x_t |-> e.currentTrial.x_t,
     click_x |-> clickState,
     rt_ms |-> rt_ms(clickTime, logTime),
     repeated_click_flag |->
         IF data.trials = <<>> THEN FALSE
         ELSE clickState = data.trials[Len(data.trials)].click_x,
     points_awarded |-> points,
     score_total_at_checkpoint |-> e.totalScore + points,
     show_past_dots_flag |-> e.showPastDotsFlag,
     tutorial_phase |-> e.tutorialPhase]

\* displayExperimentSummary: trials.filter(trial => trial.rt_ms > 0)
validRTs(logged) == SelectSeq(logged, LAMBDA trial : trial.rt_ms > 0)

\* displayExperimentSummary: the mean rt_ms of validRTs, 0 when there is none
avgReactionTime(logged) ==
    LET valid == validRTs(logged)
    IN  IF Len(valid) > 0
        THEN Sum([i \in 1..Len(valid) |-> valid[i].rt_ms]) \div Len(valid)
        ELSE 0

\* Where a participant aims: at the snowball just shown, or where the pointer
\* starts (pointerX = canvasWidth / 2, part_000 line 46).
Aims == {"snowball", "centre"}

\* The whole pixel (event.clientX - rect.left) a participant aiming at a clicks.
AimPixel(a, trial) ==
    IF a = "snowball"
    THEN (stateToScreen(trial.x_t, canvasWidth) + Fixed(1) \div 2) \div Fixed(1)
    ELSE canvasWidth \div 2

\* The trials of a block of len trials on which a participant clicks early.
EarlyTrials(len) == {0, len - 1}

\* The main trial counts selected on the instructions screen.
SessionCounts == {0, DefaultTrialCount}

\* The page is loaded: new NeuroStateExperiment(), before startExperiment. The
\* generator startExperiment will construct is drawn here with its count, and
\* so is the time handleClick takes on this machine.
InitSess ==
    \E n \in SessionCounts, c \in Conditions, a \in Aims, d \in 0..MaxHandlerMs :
        /\ Fresh([g \in Gens |-> n])
        /\ HelperIdle
        /\ experiment = NewExperiment(c)
        /\ experimentData = [participantID |-> ParticipantID, condition |-> c,
                             trials |-> <<>>]
        /\ timers = 0
        /\ participant = [aim |-> a, early |-> 0]
        /\ clock = [now |-> 0, step |-> d]

\* startExperiment up to its generateAllSequences call (lines 188-205)
StartExperiment ==
    /\ experiment.screen = "instructions"
    /\ calls[1] = 0
    /\ CallGenerateAll(1)

\* startExperiment from the return of generateAllSequences (lines 205-229),
\* with the startTutorial it ends on
StartTutorial ==
    /\ experiment.screen = "instructions"
    /\ pc = "idle"
    /\ calls[1] = 1
    /\ experiment' = startTutorial([experiment EXCEPT !.screen = "running",
                                                      !.generator = 1],
                                   sequences[1])
    /\ UNCHANGED <<genVars, rng, pc, self, plan, single, seqCalls, loopVars, acc,
                   hzVars, utilVars, experimentData, timers, participant, clock>>

\* A handler is running: startExperiment is inside generateAllSequences or
\* has not yet stored what the call returned. No other handler starts then.
HandlerRunning ==
    \/ pc # "idle"
    \/ \E g \in Gens : g = experiment.generator + 1 /\ calls[g] > 0

\* handleClick: a click on the canvas. A click while a timer is pending is an
\* early one; a participant makes at most MaxEarlyClicks of them, on the
\* first or the last trial of a block.
HandleClick ==
    /\ ~HandlerRunning
    /\ experiment.screen = "running"
    /\ experiment.canvasListening
    /\ \/ timers = 0
       \/ /\ participant.early < MaxEarlyClicks
          /\ experiment.trialIdx \in EarlyTrials(Len(experiment.currentTrials))
    /\ participant' = [participant EXCEPT !.early = IF timers > 0 THEN @ + 1 ELSE @]
    /\ LET clickX == AimPixel(participant.aim, experiment.currentTrial)
           clickState == screenToState(Fixed(clickX), canvasWidth)
           points == ExperimentUtils_calculatePoints(clickState,
                                                     experiment.currentTrial.s_t)
           clickTime == clock.now
           logTime == clickTime + clock.step
       IN  /\ experimentData' =
                  [experimentData EXCEPT !.trials =
                      Append(@, TrialData(experiment, experimentData,
                                          clickState, points, clickTime, logTime))]
           /\ experiment' = [experiment EXCEPT !.totalScore = @ + points]
           /\ clock' = [clock EXCEPT !.now = logTime]
    /\ timers' = timers + 1
    /\ UNCHANGED <<genVars, rng, pc, self, plan, single, seqCalls, loopVars, acc,
                   hzVars, utilVars>>

\* An inter-trial timer fires, interTrialInterval after the clock was last
\* read: this.trialIdx++; this.startTrial() (line 525)
TimerFires ==
    /\ ~HandlerRunning
    /\ timers > 0
    /\ timers' = timers - 1
    /\ clock' = [clock EXCEPT !.now = @ + interTrialInterval]
    /\ experiment' = startTrial([experiment EXCEPT !.trialIdx = @ + 1],
                                sequences[experiment.generator])
    /\ UNCHANGED <<genVars, rng, pc, self, plan, single, seqCalls, loopVars, acc,
                   hzVars, utilVars, experimentData, participant>>

NextSess ==
    \/ StartExperiment
    \/ SequenceBegin
    \/ SequenceTrial
    \/ SequenceReturn
    \/ StartTutorial
    \/ HandleClick
    \/ TimerFires

SessSpec == InitSess /\ [][NextSess]_vars

\* The page is loaded for a participant who aims at the snowball, on a
\* machine whose two clock reads in handleClick fall in the same millisecond.
InitSessLive ==
    /\ InitSess
    /\ participant.aim = "snowball"
    /\ clock.step = 0

\* The session with a participant who clicks on every trial presented
\* (handleClick happens while the canvas waits for a click) and a browser
\* that runs every setTimeout callback it was given (part_000, line 525) and
\* every handler to its end.
SessLiveSpec ==
    /\ InitSessLive
    /\ [][NextSess]_vars
    /\ WF_vars(HandleClick)
    /\ WF_vars(TimerFires)

\* The numbers of records logged at which a participant presses a start
\* control again: the fallback button stays on the page during the session
\* (part_000, lines 680-695).
RestartPoints == {1, 2, 11, 71}

\* startExperiment invoked again, up to its generateAllSequences call (lines
\* 188-205): the trial count is read from the same radio buttons, a new
\* StimulusGenerator is constructed (generator 2) and asked for its sequences.
RestartExperiment ==
    /\ ~HandlerRunning
    /\ experiment.screen = "running"
    /\ experiment.generator = 1
    /\ calls[2] = 0
    /\ Len(experimentData.trials) \in RestartPoints
    /\ CallGenerateAll(2)

\* the second startExperiment from the return of generateAllSequences (lines
\* 205-229), with the startTutorial it ends on
RestartTutorial ==
    /\ pc = "idle"
    /\ experiment.generator = 1
    /\ calls[2] = 1
    /\ experiment' = startTutorial([experiment EXCEPT !.generator = 2],
                                   sequences[2])
    /\ UNCHANGED <<genVars, rng, pc, self, plan, single, seqCalls, loopVars, acc,
                   hzVars, utilVars, experimentData, timers, participant, clock>>

\* After the restart the participant plays on for MaxTrialsAfterRestart trials.
PlaysOn ==
    \/ experiment.generator = 1
    \/ experiment.trialIdx < MaxTrialsAfterRestart

NextRestart ==
    \/ StartExperiment
    \/ SequenceBegin
    \/ SequenceTrial
    \/ SequenceReturn
    \/ StartTutorial
    \/ HandleClick /\ PlaysOn
    \/ TimerFires
    \/ RestartExperiment
    \/ RestartTutorial

RestartSpec == InitSessLive /\ [][NextRestart]_vars

\* ------------------------------------------------------------------ claims

\* The sequences of a value returned by generateAllSequences, in call order.
SeqsOf(v) == v.HI.tutorials \o <<v.HI.main>> \o v.HD.tutorials \o <<v.HD.main>>

\* The generators that have returned from generateAllSequences.
Returned == {g \in Gens : calls[g] > 0}

\* Every sequence generated so far that the state still holds: the one being
\* built, those already returned to the running generateAllSequences, and
\* those of the values generateAllSequences returned.
GeneratedSeqs ==
    {trials} \cup {acc[i] : i \in 1..Len(acc)}
    \cup UNION {{SeqsOf(latest[g])[i] : i \in 1..12} : g \in Returned}
    \cup UNION {{SeqsOf(sequences[g])[i] : i \in 1..12} : g \in Returned}

InRange(v) == 0 <= v /\ v <= Fixed(STATE_RANGE)

\* C1: every generated trial has 0 <= s_t <= 300 and 0 <= x_t <= 300, and so
\* has the initial state drawn before the first trial of a sequence.
C1_RangeInvariant ==
    /\ pc = "loop" => InRange(currentState)
    /\ \A s \in GeneratedSeqs : \A i \in 1..Len(s) :
          InRange(s[i].s_t) /\ InRange(s[i].x_t)

\* C1 witness: generateAllSequences has returned main sequences of MaxMain
\* trials, an observation was clamped to 0, and both a changed main trial
\* (bimodal branch) and a changed tutorial trial are among the trials.
C1_Witness ==
    \E g \in Returned :
       /\ MAIN_TRIALS[g] = MaxMain
       /\ \E i \in 1..12 : \E j \in 1..Len(SeqsOf(latest[g])[i]) :
             SeqsOf(latest[g])[i][j].x_t = 0
       /\ \E j \in 1..MaxMain : latest[g].HI.main[j].change_flag
       /\ \E j \in 1..MaxMain : latest[g].HD.main[j].change_flag
       /\ \E k \in 1..5 : \E j \in 1..Len(latest[g].HD.tutorials[k]) :
             latest[g].HD.tutorials[k][j].change_flag

\* tau_true of the trial before trial i of s; the counter starts at 0.
TauBefore(s, i) == IF i = 1 THEN 0 ELSE s[i - 1].tau_true

\* C2 as stated: tau_true is 0 exactly on changed trials, otherwise the
\* previous trial's tau_true + 1, and the first trial has tau_true = 0.
C2_Original ==
    \A s \in GeneratedSeqs : \A i \in 1..Len(s) :
       /\ s[i].tau_true = 0 <=> s[i].change_flag
       /\ (i > 1 /\ ~s[i].change_flag) => s[i].tau_true = s[i - 1].tau_true + 1
       /\ i = 1 => s[i].tau_true = 0

\* C2 amended: tau_true is 0 exactly on changed trials; on every other trial
\* it is the previous trial's tau_true + 1, the first trial counting from the
\* initial tau = 0: an unchanged first trial has tau_true = 1.
C2_TauRecorded ==
    \A s \in GeneratedSeqs : \A i \in 1..Len(s) :
       /\ s[i].tau_true = 0 <=> s[i].change_flag
       /\ ~s[i].change_flag => s[i].tau_true = TauBefore(s, i) + 1

\* C2 witness: a returned sequence whose first trial is unchanged (tau_true 1)
\* and which later has a change followed by an unchanged trial.
C2_Witness ==
    \E g \in Returned : \E i \in 1..12 :
       LET s == SeqsOf(latest[g])[i]
       IN  /\ Len(s) > 2
           /\ ~s[1].change_flag /\ s[1].tau_true = 1
           /\ \E j \in 2..(Len(s) - 1) :
                 s[j].change_flag /\ s[j].tau_true = 0 /\ s[j + 1].tau_true = 1

\* The (s_t, x_t, change_flag, tau_true) tuple of a trial.
Tuple(r) == <<r.s_t, r.x_t, r.change_flag, r.tau_true>>

\* C3: two independently constructed generators with the same main trial
\* count, each having called generateAllSequences, got from their first call
\* the same (s_t, x_t, change_flag, tau_true) at every position of every
\* tutorial and main sequence of both conditions.
C3_Determinism ==
    \A g \in Returned : \A h \in Returned :
       MAIN_TRIALS[g] = MAIN_TRIALS[h] =>
          \A i \in 1..12 :
             LET a == SeqsOf(sequences[g])[i]
                 b == SeqsOf(sequences[h])[i]
             IN  /\ Len(a) = Len(b)
                 /\ \A j \in 1..Len(a) : Tuple(a[j]) = Tuple(b[j])

\* C3 witness: both generators, constructed with MaxMain main trials, have
\* each called generateAllSequences once.
C3_Witness ==
    /\ calls[1] = 1 /\ calls[2] = 1
    /\ MAIN_TRIALS[1] = MaxMain /\ MAIN_TRIALS[2] = MaxMain
    /\ Len(sequences[1].HD.main) = MaxMain
    /\ \E j \in 1..MaxMain : sequences[2].HD.main[j].change_flag

\* The first generateAllSequences results of the generators constructed with
\* the main trial count 5 (the seed is 12345 in every generator).
Scenario == {sequences[g] : g \in {h \in Returned : MAIN_TRIALS[h] = 5}}

\* C4 as stated: with seed 12345 and 5 main trials the HI main sequence has
\* exactly 5 trials, its first trial has tau_true = 0, every trial has
\* hazard_rate 0.1 and s_t, x_t in [0, 300].
C4_Original ==
    \A v \in Scenario :
       /\ Len(v.HI.main) = 5
       /\ v.HI.main[1].tau_true = 0
       /\ \A j \in 1..Len(v.HI.main) :
             /\ v.HI.main[j].hazard_rate = Dbl01
             /\ InRange(v.HI.main[j].s_t) /\ InRange(v.HI.main[j].x_t)

\* C4 amended: as stated, except that the first trial is not a change and so
\* has tau_true = 1.
C4_Scenario ==
    \A v \in Scenario :
       /\ Len(v.HI.main) = 5
       /\ ~v.HI.main[1].change_flag /\ v.HI.main[1].tau_true = 1
       /\ \A j \in 1..Len(v.HI.main) :
             /\ v.HI.main[j].hazard_rate = Dbl01
             /\ InRange(v.HI.main[j].s_t) /\ InRange(v.HI.main[j].x_t)

\* C4 witness: a generator constructed with 5 main trials has returned from
\* generateAllSequences.
C4_Witness ==
    \E g \in Returned :
       MAIN_TRIALS[g] = 5 /\ Len(sequences[g].HI.main) = 5 /\ calls[g] = 1

\* The order the claim fixes: HI phases 1..5, HI main, HD phases 1..5, HD main.
ClaimedOrder ==
    [k \in 1..12 |-> [condition |-> IF k <= 6 THEN "HI" ELSE "HD",
                      is_tutorial |-> k % 6 # 0,
                      tutorial_phase |-> IF k % 6 = 0 THEN null ELSE k % 6]]

\* Sequence s was generated as the k-th of the claimed order.
TaggedAs(s, k) ==
    \A j \in 1..Len(s) :
       /\ s[j].condition = ClaimedOrder[k].condition
       /\ s[j].is_tutorial = ClaimedOrder[k].is_tutorial
       /\ s[j].tutorial_phase = ClaimedOrder[k].tutorial_phase

\* The draws of the sequences are consecutive stretches of one stream.
Consecutive(sp) ==
    \A k \in 1..Len(sp) :
       /\ sp[k][1] < sp[k][2]
       /\ k > 1 => sp[k][1] = sp[k - 1][2]

\* C5: generateAllSequences consumes the one stream of its generator
\* sequence after sequence in the order HI phases 1..5, HI main, HD phases
\* 1..5, HD main: the draws of the k-th sequence of that order start where
\* those of the (k-1)-th ended, up to the stream's position at return, and
\* only the running generator's stream advances.
C5_StreamOrder ==
    /\ [](\A g \in Gens :
            /\ Consecutive(spans[g])
            /\ (self = g /\ ~single) =>
                  /\ Len(acc) + Len(plan) = 12
                  /\ \A k \in 1..Len(acc) : TaggedAs(acc[k], k)
                  /\ TaggedAs(trials, Len(acc) + 1) \/ pc = "begin"
                  /\ acc # <<>> =>
                        /\ Len(spans[g]) = Len(acc)
                        /\ pc = "loop" => firstDraw = spans[g][Len(acc)][2]
            /\ g \in Returned =>
                  /\ \A k \in 1..12 : TaggedAs(SeqsOf(latest[g])[k], k)
                  /\ self # g =>
                        /\ Len(spans[g]) = 12
                        /\ spans[g][12][2] = rng[g].draws)
    /\ [][\A g \in Gens : rng'[g] # rng[g] =>
             /\ self = g
             /\ rng'[g].draws > rng[g].draws]_vars

\* C5 witness: the second call on a generator is in its HD main sequence,
\* after its first call returned.
C5_Witness ==
    /\ self = 1 /\ calls[1] = 1 /\ pc = "loop" /\ Len(acc) = 11
    /\ MAIN_TRIALS[1] = MaxMain /\ t = MaxMain

\* C6: each returned value has, per condition, 5 tutorial sequences of
\* lengths 10, 10, 15, 15, 20 with is_tutorial = true and tutorial_phase =
\* 1..5, and a main sequence of MAIN_TRIALS trials with is_tutorial = false
\* and tutorial_phase = null; trial_idx runs 0..n-1 and condition is the
\* requested condition.
C6_Shape ==
    \A g \in Returned : \A c \in Conditions :
       LET v == latest[g][c]
           Tagged(s, tut, ph) ==
              \A j \in 1..Len(s) :
                 /\ s[j].trial_idx = j - 1
                 /\ s[j].condition = c
                 /\ s[j].is_tutorial = tut
                 /\ s[j].tutorial_phase = ph
       IN  /\ Len(v.tutorials) = 5
           /\ \A k \in 1..5 :
                 /\ Len(v.tutorials[k]) = <<10, 10, 15, 15, 20>>[k]
                 /\ Tagged(v.tutorials[k], TRUE, k)
           /\ Len(v.main) = MAIN_TRIALS[g]
           /\ Tagged(v.main, FALSE, null)

\* C6 witness: a generator with MaxMain main trials has returned.
C6_Witness ==
    \E g \in Returned :
       /\ MAIN_TRIALS[g] = MaxMain
       /\ Len(latest[g].HD.main) = MaxMain
       /\ latest[g].HD.main[MaxMain].trial_idx = MaxMain - 1

\* C7: every trial generated for condition HI has hazard_rate exactly 0.1.
C7_HIHazard ==
    \A s \in GeneratedSeqs : \A i \in 1..Len(s) :
       s[i].condition = "HI" => s[i].hazard_rate = Dbl01

\* C7 witness: returned HI trials, one of a tutorial and one of the main
\* sequence, each generated with tau >= 10 (where the HD hazard is >= 0.5).
C7_Witness ==
    \E g \in Returned :
       /\ \E k \in 1..5 : \E j \in 2..Len(latest[g].HI.tutorials[k]) :
             latest[g].HI.tutorials[k][j - 1].tau_true >= 10
       /\ \E j \in 2..Len(latest[g].HI.main) :
             latest[g].HI.main[j - 1].tau_true >= 10

\* The calculateHDHazard calls the state records.
HazardCalls == {c \in {hzPrev, hzLast} : c.tau # null}

\* C8 as stated: calculateHDHazard(tau) lies in [0,1], is exactly 0.5 at
\* tau = 10, and hazard(tau+1) > hazard(tau) for every tau >= 0.
C8_Original ==
    /\ \A c \in HazardCalls :
          /\ ProbLeq(<<0, 0, 0>>, c.value) /\ ProbLeq(c.value, Dbl1)
          /\ c.tau = 10 => c.value = Dbl05
    /\ \A c \in HazardCalls : \A d \in HazardCalls :
          d.tau = c.tau + 1 => ProbLess(c.value, d.value)

\* C8 amended: calculateHDHazard(tau) lies in [0,1], is exactly 0.5 at
\* tau = 10, never decreases, and hazard(tau+1) > hazard(tau) for
\* 0 <= tau < 47; from tau = 47 on it is exactly 1.
C8_HDHazard ==
    /\ \A c \in HazardCalls :
          /\ ProbLeq(<<0, 0, 0>>, c.value) /\ ProbLeq(c.value, Dbl1)
          /\ c.tau = 10 => c.value = Dbl05
          /\ c.tau >= 47 <=> c.value = Dbl1
    /\ \A c \in HazardCalls : \A d \in HazardCalls :
          /\ c.tau <= d.tau => ProbLeq(c.value, d.value)
          /\ (d.tau = c.tau + 1 /\ c.tau < 47) => ProbLess(c.value, d.value)

\* C8 witness: the hazard was evaluated at 46 and then at 47, the last step
\* on which it still grows.
C8_Witness ==
    /\ hzPrev.tau = 46 /\ hzLast.tau = 47
    /\ ProbLess(hzPrev.value, hzLast.value)
    /\ hzLast.value = Dbl1

\* The step is one iteration of the loop of generateSequence.
IsTrialStep == pc = "loop" /\ pc' = "loop" /\ t' = t + 1

\* The trial record the step pushed.
Pushed == trials'[Len(trials')]

\* C9: on a changed trial of a non-tutorial sequence with t = 0 or t not a
\* multiple of 50 the new state is sampleBimodalTransition of the old one,
\* drawn right after the hazard draw (no exploration-gate draw), and the
\* one remaining draw is the observation's; on an unchanged trial the state
\* is kept and the trial makes two draws (hazard and observation).
C9_ExplorationGate ==
    [][IsTrialStep =>
         LET h == random(rng[self])
             b == sampleBimodalTransition(currentState, h.rng)
         IN  /\ (/\ Pushed.change_flag
                 /\ ~plan[1].isTutorial
                 /\ (t = 0 \/ t % 50 # 0))
                  => /\ currentState' = b.value
                     /\ Pushed.s_t = b.value
                     /\ rng'[self].draws = b.rng.draws + 1
                     /\ rng'[self] = LcgNext(b.rng)
             /\ ~Pushed.change_flag
                  => /\ currentState' = currentState
                     /\ Pushed.s_t = currentState
                     /\ rng'[self].draws = rng[self].draws + 2]_vars

\* C9 witness: a non-tutorial sequence whose trial 0 was a change and which
\* had a further change at an index that is no multiple of 50.
C9_Witness ==
    /\ pc = "loop" /\ single /\ ~plan[1].isTutorial
    /\ Len(trials) > 1
    /\ trials[1].change_flag
    /\ \E j \in 2..Len(trials) :
          trials[j].change_flag /\ trials[j].trial_idx % 50 # 0

\* C10: the likelihood_width recorded on a trial is 10 exactly when the
\* sequence is a tutorial of phase 3 or 4 and 20 otherwise, and the trial's
\* observation is the triangular sample of that half-width around s_t.
C10_LikelihoodWidth ==
    [][IsTrialStep =>
         LET a == plan[1]
             h == random(rng[self])
             moved == IF Pushed.change_flag
                      THEN Transition(currentState, a.isTutorial, t, h.rng)
                      ELSE [rng |-> h.rng, value |-> currentState]
         IN  /\ Pushed.likelihood_width =
                   IF a.isTutorial /\ a.tutorialPhase \in {3, 4}
                   THEN Fixed(10) ELSE Fixed(20)
             /\ Pushed.x_t = sampleTriangular(Pushed.s_t, Pushed.likelihood_width,
                                              moved.rng).value]_vars

\* C10 witness: sequences of each kind have trials: here a tutorial of phase
\* 4 with the half-width 10 and an observation off the state.
C10_Witness ==
    /\ pc = "loop" /\ single
    /\ plan[1].isTutorial /\ plan[1].tutorialPhase = 4
    /\ \E j \in 1..Len(trials) :
          /\ trials[j].likelihood_width = Fixed(10)
          /\ trials[j].x_t # trials[j].s_t

\* the estimate of the calculatePoints call under study
ClickOf(c) == c.trueState + c.offset

\* C11: calculatePoints(estimate, trueState, radius) returns 1 when the
\* distance d = |estimate - trueState| is at most radius, 0.25 when
\* radius < d <= 2*radius and 0 when d > 2*radius; so score(x, x) = 1 and,
\* with radius 10, score(105,100) = 1, score(115,100) = 0.25, score(130,100) = 0.
C11_Tiers ==
    (call.op = "calculatePoints" /\ result.done) =>
        LET d == IF call.offset >= 0 THEN call.offset ELSE 0 - call.offset
            r == call.baseRadius
            scored(x, y, p) ==
                (ClickOf(call) = Fixed(x) /\ call.trueState = Fixed(y)
                    /\ r = Fixed(10)) => result.value = p
        IN  /\ d <= r => result.value = Fixed(1)
            /\ (r < d /\ d <= 2 * r) => result.value = 25
            /\ d > 2 * r => result.value = 0
            /\ ClickOf(call) = call.trueState => result.value = Fixed(1)
            /\ scored(105, 100, Fixed(1))
            /\ scored(115, 100, 25)
            /\ scored(130, 100, 0)

\* score(115, 100) with radius 10 has returned 0.25
C11_Witness ==
    /\ call.op = "calculatePoints"
    /\ result.done
    /\ ClickOf(call) = Fixed(115)
    /\ call.trueState = Fixed(100)
    /\ call.baseRadius = Fixed(10)
    /\ result.value = 25

\* the records logged so far: experimentData.trials
Log == experimentData.trials

\* the points of the radius-based scoring for a click at distance d
RadiusPoints(d) ==
    IF d <= Fixed(10) THEN Fixed(1)
    ELSE IF d <= Fixed(20) THEN Fixed(1) \div 4
    ELSE 0

\* C12: the points_awarded logged for each click follow the radius-based
\* scoring: 1 point within 10 state units of the true state, 0.25 within 20
\* units, 0 otherwise; so every logged points_awarded is one of 0, 0.25, 1.
C12_RadiusScoring ==
    \A i \in 1..Len(Log) :
        LET d == calculateDistance(Log[i].click_x, Log[i].s_t)
        IN  /\ Log[i].points_awarded = RadiusPoints(d)
            /\ Log[i].points_awarded \in {0, Fixed(1) \div 4, Fixed(1)}

\* the generated sequence of the block a logged record belongs to
BlockOf(rec) ==
    IF rec.tutorial_phase = null
    THEN sequences[1][rec.condition].main
    ELSE sequences[1][rec.condition].tutorials[rec.tutorial_phase]

\* record b is logged for the trial after the one record a is logged for
NextTrialAfter(a, b) ==
    \/ /\ b.tutorial_phase = a.tutorial_phase
       /\ b.trial_idx = a.trial_idx + 1
    \/ /\ a.trial_idx = Len(BlockOf(a)) - 1
       /\ b.trial_idx = 0
       /\ a.tutorial_phase # null
       /\ b.tutorial_phase =
              IF a.tutorial_phase < LastTutorialPhase THEN a.tutorial_phase + 1
              ELSE null

\* C13: under every interleaving of clicks and inter-trial timers the trials
\* of the current sequence are consumed in index order and the log holds
\* exactly one record per trial: the first record is for trial 0 of tutorial
\* phase 1, each later record is for the trial after its predecessor's, the
\* trial on display is the one after the last logged (or that one, while its
\* timer is pending), and at completion every trial has its record.
C13_OneRecordPerTrial ==
    /\ Len(Log) > 0 => (Log[1].tutorial_phase = 1 /\ Log[1].trial_idx = 0)
    /\ \A i \in 1..(Len(Log) - 1) : NextTrialAfter(Log[i], Log[i + 1])
    /\ (experiment.screen = "running" /\ Len(Log) > 0) =>
           LET last == Log[Len(Log)]
               shown == [tutorial_phase |-> experiment.tutorialPhase,
                         trial_idx |-> experiment.trialIdx]
           IN  IF timers > 0
               THEN /\ shown.tutorial_phase = last.tutorial_phase
                    /\ shown.trial_idx = last.trial_idx
               ELSE NextTrialAfter(last, shown)
    /\ experiment.screen = "completion" =>
           Len(Log) = Len(sequences[1][experiment.condition].main)
                      + TUTORIAL_TRIALS[1] + TUTORIAL_TRIALS[2]
                      + TUTORIAL_TRIALS[3] + TUTORIAL_TRIALS[4]
                      + TUTORIAL_TRIALS[5]

\* C14: generateSequence with nTrials = 0 returns an empty list without an
\* error (the call reaches its return with nothing pushed), and a generator
\* constructed with main trial count 0 completes generateAllSequences with
\* empty main sequences for both conditions and tutorials of the usual lengths.
C14_ZeroTrials ==
    /\ (pc = "loop" /\ plan[1].nTrials = 0) => (t = 0 /\ trials = <<>>)
    /\ \A g \in Gens :
        (calls[g] > 0 /\ MAIN_TRIALS[g] = 0) =>
            \A c \in Conditions :
                /\ latest[g][c].main = <<>>
                /\ Len(latest[g][c].tutorials) = Len(TUTORIAL_TRIALS)
                /\ \A p \in 1..Len(TUTORIAL_TRIALS) :
                       Len(latest[g][c].tutorials[p]) = TUTORIAL_TRIALS[p]

\* a generator with main count 0 has returned from generateAllSequences
C14_Witness ==
    \E g \in Gens :
        /\ MAIN_TRIALS[g] = 0
        /\ calls[g] = 1
        /\ pc = "idle"
        /\ latest[g]["HI"].main = <<>>
        /\ latest[g]["HD"].main = <<>>
        /\ Len(latest[g]["HD"].tutorials[5]) = 20

\* C15: a negative trial count is rejected as a configuration error: a
\* generator constructed with a negative count never returns sequences, and a
\* generateSequence call for a negative count never reaches its return.
C15_NegativeRejected ==
    \A g \in Gens :
        MAIN_TRIALS[g] < 0 =>
            /\ calls[g] = 0
            /\ ~(self = g /\ pc = "loop" /\ plan[1].nTrials < 0)

\* 32-bit integers as [hi, lo] limbs, for the recurrence as the claim writes it
Word(n) == [hi |-> n \div B16, lo |-> n % B16]
Current(r) == [hi |-> r.hi, lo |-> r.lo]
\* the four bytes of a 32-bit integer, the lowest first
Bytes(x) == <<x.lo % B8, x.lo \div B8, x.hi % B8, x.hi \div B8>>

\* (x * 1664525 + 1013904223) mod 2^32, by long multiplication on bytes
RecurrenceStep(x) ==
    LET b  == Bytes(x)
        a  == Bytes(Word(1664525))
        c  == Bytes(Word(1013904223))
        s0 == b[1] * a[1] + c[1]
        s1 == b[1] * a[2] + b[2] * a[1] + c[2] + (s0 \div B8)
        s2 == b[1] * a[3] + b[2] * a[2] + b[3] * a[1] + c[3] + (s1 \div B8)
        s3 == b[1] * a[4] + b[2] * a[3] + b[3] * a[2] + b[4] * a[1] + c[4]
              + (s2 \div B8)
    IN  [hi |-> (s3 % B8) * B8 + (s2 % B8), lo |-> (s1 % B8) * B8 + (s0 % B8)]

\* the recurrence applied n times to x
RECURSIVE Recurrence(_, _)
Recurrence(x, n) ==
    IF n = 0 THEN x ELSE Recurrence(RecurrenceStep(x), n - 1)

\* the stream of generator g holds an integer in [0, 2^32), its next product
\* is exact in a double (as is the product of the largest such integer), and
\* its value / 2^32 is in [0, 1)
StreamSound(g) ==
    /\ rng[g].hi \in 0..(B16 - 1)
    /\ rng[g].lo \in 0..(B16 - 1)
    /\ rng[g].draws = 0 => Current(rng[g]) = Word(12345)
    /\ DoubleExact(rng[g])
    /\ DoubleExact([hi |-> B16 - 1, lo |-> B16 - 1, draws |-> 0])
    /\ LET u == Uniform(rng[g])
       IN  /\ u[1] \in 0..(2 ^ 24 - 1)
           /\ u[2] \in 0..(2 ^ 24 - 1)
           /\ u[3] \in 0..(2 ^ 24 - 1)

\* C16: after any number of random() calls from the seed, current equals the
\* exact integer recurrence current' = (current*1664525 + 1013904223) mod 2^32
\* applied that many times (every step of the program applies it once per
\* draw made), stays an integer in [0, 2^32), and current/2^32 is in [0, 1).
C16_ExactRecurrence ==
    /\ [](\A g \in Gens : StreamSound(g))
    /\ [][\A g \in Gens :
            /\ rng'[g].draws >= rng[g].draws
            /\ Current(rng'[g]) =
                   Recurrence(Current(rng[g]), rng'[g].draws - rng[g].draws)]_vars

\* a stream has made more than a hundred draws and wrapped around 2^32
C16_Witness ==
    \E g \in Gens :
        /\ rng[g].draws > 100
        /\ ProductHigh(rng[g]) > 2 ^ 20
        /\ Current(rng[g]) # Word(12345)

\* C17: analyzeStateCoverage has no side effects on generation: a call leaves
\* the stream position and every generated sequence as they were, so a
\* generator that was analysed and one that was not, constructed alike and
\* having made as many generateAllSequences calls, hold the same stream and
\* the same sequences, and what they generate next is the same.
C17_NoSideEffects ==
    /\ [][(\E g \in Gens : AnalyzeCoverage(g)) =>
            UNCHANGED <<rng, sequences, latest, MAIN_TRIALS>>]_vars
    /\ [](\A g, h \in Gens :
            (pc = "idle" /\ calls[g] = calls[h]
                /\ MAIN_TRIALS[g] = MAIN_TRIALS[h]) =>
                /\ rng[g] = rng[h]
                /\ latest[g] = latest[h]
                /\ sequences[g] = sequences[h])

\* generator 1 was analysed after its generateAllSequences call; generator 2,
\* constructed alike, has also generated once
C17_Witness ==
    /\ call.op = "analyzeStateCoverage"
    /\ result.done
    /\ call.generator = 1
    /\ call.after = 1
    /\ pc = "idle"
    /\ calls[1] = 1
    /\ calls[2] = 1
    /\ MAIN_TRIALS[1] = MAIN_TRIALS[2]
    /\ MAIN_TRIALS[1] > 0
    /\ result.value["HD"].quartileDistribution.counts.q1
       + result.value["HD"].quartileDistribution.counts.q2
       + result.value["HD"].quartileDistribution.counts.q3
       + result.value["HD"].quartileDistribution.counts.q4 = MAIN_TRIALS[1]

\* how many of the states called with lie in [lo, hi)
InBin(lo, hi) ==
    Cardinality({i \in 1..Len(call.states) :
                    call.states[i] >= lo /\ call.states[i] < hi})

\* C18: calculateQuartileDistribution partitions the states over the bins
\* [0,75), [75,150), [150,225), [225,300]: every state in [0,300] is counted
\* in exactly one bin, so the four counts sum to the number of states.
C18_QuartilePartition ==
    (call.op = "calculateQuartileDistribution" /\ result.done) =>
        LET counts == result.value.counts
        IN  /\ counts.q1 = InBin(0, Fixed(75))
            /\ counts.q2 = InBin(Fixed(75), Fixed(150))
            /\ counts.q3 = InBin(Fixed(150), Fixed(225))
            /\ counts.q4 = InBin(Fixed(225), Fixed(300) + 1)
            /\ counts.q1 + counts.q2 + counts.q3 + counts.q4 = Len(call.states)

\* the states 75, 149.99 and 300 have been counted in the second, second and
\* fourth bin
C18_Witness ==
    /\ call.op = "calculateQuartileDistribution"
    /\ result.done
    /\ call.states = <<Fixed(75), Fixed(150) - 1, Fixed(300)>>
    /\ result.value.counts = [q1 |-> 0, q2 |-> 2, q3 |-> 0, q4 |-> 1]

\* the pieces of a text between the occurrences of the character sep
RECURSIVE Split(_, _)
Split(text, sep) ==
    IF \A i \in 1..Len(text) : text[i] # sep THEN <<text>>
    ELSE LET i == CHOOSE k \in 1..Len(text) :
                      text[k] = sep /\ \A j \in 1..(k - 1) : text[j] # sep
         IN  <<SubSeq(text, 1, i - 1)>> \o Split(SubSeq(text, i + 1, Len(text)), sep)

\* the texts of a list with commas between them
RECURSIVE CommaJoined(_)
CommaJoined(texts) ==
    IF texts = <<>> THEN <<>>
    ELSE IF Len(texts) = 1 THEN texts[1]
    ELSE texts[1] \o <<",">> \o CommaJoined(Tail(texts))

\* jsonToCSV has returned for a document of at least one trial
CsvReturned ==
    /\ call.op = "jsonToCSV"
    /\ result.done
    /\ Len(call.jsonData.trials) >= 1

\* C19: jsonToCSV of a document of n >= 1 trials returns exactly n + 1 lines:
\* a header line whose first two fields are participantID and condition,
\* then one row per trial in trial order whose first two fields are the
\* document's participantID and condition; for two trials, 3 lines.
C19_Lines ==
    CsvReturned =>
        LET doc == call.jsonData
            n == Len(doc.trials)
            lines == Split(result.value, "\n")
        IN  /\ Len(lines) = n + 1
            /\ n = 2 => Len(lines) = 3
            /\ Split(lines[1], ",")[1] = <<"p", "a", "r", "t", "i", "c", "i", "p", "a", "n", "t", "I", "D">>
            /\ Split(lines[1], ",")[2] = <<"c", "o", "n", "d", "i", "t", "i", "o", "n">>
            /\ \A i \in 1..n :
                   LET fields == Split(lines[i + 1], ",")
                   IN  /\ fields[1] = doc.participantID
                       /\ fields[2] = doc.condition
                       /\ fields[3] = Digits(doc.trials[i].values[1].num)

\* a document of two trials, the first with a string holding a comma, has
\* been written as three lines
C19_Witness ==
    /\ CsvReturned
    /\ Len(call.jsonData.trials) = 2
    /\ call.jsonData.trials[1].values[3] = Str(<<"a", ",", "b">>)
    /\ Len(Split(result.value, "\n")) = 3

\* how the claim has a value written, null as the text given
WrittenAs(v, nullText) ==
    IF v.type = "boolean" THEN (IF v.flag THEN <<"1">> ELSE <<"0">>)
    ELSE IF v.type = "string"
    THEN (IF \E i \in 1..Len(v.text) : v.text[i] = ","
          THEN <<"\"">> \o v.text \o <<"\"">>
          ELSE v.text)
    ELSE IF v.type = "number" THEN Digits(v.num)
    ELSE nullText

\* every row is the document's participantID and condition and then each
\* value of its trial written as WrittenAs has it
RowsWritten(nullText) ==
    CsvReturned =>
        LET doc == call.jsonData
            lines == Split(result.value, "\n")
        IN  \A i \in 1..Len(doc.trials) :
                lines[i + 1] =
                    CommaJoined(<<doc.participantID, doc.condition>>
                                \o [k \in 1..Len(doc.trials[i].values) |->
                                       WrittenAs(doc.trials[i].values[k], nullText)])

\* C20 as stated: in every row a boolean is written as 1 or 0, a string with
\* a comma is wrapped in double quotes, and every other value is written
\* unchanged: a number as its digits, a string as it is, null as null.
C20_Original == RowsWritten(<<"n", "u", "l", "l">>)

\* C20, amended: in every row a boolean is written as 1 or 0, a string with a
\* comma is wrapped in double quotes (a quote inside it is not escaped), null
\* is written as an empty field, and numbers and strings without a comma are
\* written unchanged.
C20_RowEncoding == RowsWritten(<<>>)

\* a trial with change_flag true and the note a,b has been written as the
\* row P01234,HI,0,1,"a,b"
C20_Witness ==
    /\ CsvReturned
    /\ call.jsonData.trials[1].values[2] = Bool(TRUE)
    /\ call.jsonData.trials[1].values[3] = Str(<<"a", ",", "b">>)
    /\ call.jsonData.condition = <<"H", "I">>
    /\ Split(result.value, "\n")[2] = <<"P", "0", "1", "2", "3", "4", ",", "H", "I", ",", "0", ",", "1", ",", "\"", "a", ",", "b", "\"">>

\* the state of the mapping call under study, and its width, as doubles
MappedState == DblOf(call.quarters, 2)
MappedWidth == DblOf(call.screenWidth, 0)

\* the mapping call under study has returned
MappingReturned ==
    /\ call.op = "stateToScreen"
    /\ result.done

\* the doubles at most n doubles away from x > 0
RECURSIVE Within(_, _)
Within(x, n) ==
    IF n = 0 THEN {x}
    ELSE LET w == Within(x, n - 1)
         IN  w \cup {DblSucc(y) : y \in w} \cup {DblPred(y) : y \in w}

\* The doubles within four units in the last place of x. Each of them
\* differs from x by at most x * 2^-50.
Near(x) == IF x = DblZero THEN {DblZero} ELSE Within(x, 4)

\* C21 as stated: the mapping uses the generator's range 300, and for every
\* width w > 0 and state s in [0,300], stateToScreen(s, w) is in [0, w] and
\* screenToState(stateToScreen(s, w), w) = s.
C21_Original ==
    /\ ScreenRange = STATE_RANGE
    /\ MappingReturned =>
          /\ DblLeq(DblZero, result.value.screenX)
          /\ DblLeq(result.value.screenX, MappedWidth)
          /\ result.value.state = MappedState

\* C21, amended: the mapping uses the generator's range 300, and for every
\* width w > 0 and state s in [0,300], stateToScreen(s, w) is in [0, w] and
\* screenToState(stateToScreen(s, w), w) is s up to the rounding of the four
\* double operations (a relative error of at most 2^-50), and exactly s at
\* the ends 0 and 300 (which map to 0 and w).
C21_RoundTrip ==
    /\ ScreenRange = STATE_RANGE
    /\ MappingReturned =>
          /\ DblLeq(DblZero, result.value.screenX)
          /\ DblLeq(result.value.screenX, MappedWidth)
          /\ result.value.state \in Near(MappedState)
          /\ call.quarters = 0 =>
                (result.value.screenX = DblZero /\ result.value.state = DblZero)
          /\ call.quarters = 4 * STATE_RANGE =>
                /\ result.value.screenX = MappedWidth
                /\ result.value.state = MappedState

\* the state 13 was mapped to the canvas width 800 and back, and came back
\* as the next double above 13
C21_Witness ==
    /\ MappingReturned
    /\ call.quarters = 4 * 13
    /\ call.screenWidth = canvasWidth
    /\ result.value.state = DblSucc(MappedState)
    /\ result.value.state # MappedState

BimodalEntry ==
    LET h == random(rng[self])
    IN  IF ExplorationGate(plan[1].isTutorial, t) THEN random(h.rng).rng ELSE h.rng

\* The step's trial is a regular state change: a change that is neither a
\* targeted exploration move nor a large jump.
IsRegularChange ==
    /\ IsTrialStep
    /\ Pushed.change_flag
    /\ LET h == random(rng[self])
       IN  ExplorationGate(plan[1].isTutorial, t) =>
               ~ProbLess(random(h.rng).u, Dbl03)
    /\ ~ProbLess(random(BimodalEntry).u, Dbl02)

\* C23: the transition constants are the documented defaults,
\* CHANGE_SIZE_HALF_WIDTH = 20 and CHANGE_SEPARATION = 5: a regular state
\* change samples a triangular distribution of half-width 20 around
\* s_t - 5 or s_t + 5, so the new state is within 25 of the old one.
C23_DocumentedConstants ==
    [][IsRegularChange =>
         LET d1 == random(BimodalEntry)
             d2 == random(d1.rng)
             center == IF ProbLess(d2.u, Dbl05) THEN currentState - Fixed(5)
                       ELSE currentState + Fixed(5)
         IN  /\ Pushed.s_t = sampleTriangular(center, Fixed(20), d2.rng).value
             /\ calculateDistance(Pushed.s_t, currentState) <= Fixed(25)]_vars

\* C24: the rt_ms logged for a click is the click's timestamp minus a
\* timestamp read later in the same handler, so with a non-decreasing clock
\* every logged rt_ms is <= 0, no record has rt_ms > 0, and the session
\* summary finds no trial with a positive reaction time (its average is 0).
C24_NegativeReactionTime ==
    /\ [](/\ \A i \in 1..Len(Log) : Log[i].rt_ms <= 0 /\ ~(Log[i].rt_ms > 0)
          /\ experiment.screen = "completion" =>
                (validRTs(Log) = <<>> /\ avgReactionTime(Log) = 0))
    /\ [][Len(Log') > Len(Log) =>
            /\ clock'.now >= clock.now
            /\ Log'[Len(Log')].rt_ms = clock.now - clock'.now]_vars

\* a session is complete whose clicks were each logged a millisecond after
\* the click's time was read: every record has rt_ms = -1
C24_Witness ==
    /\ experiment.screen = "completion"
    /\ clock.step = 1
    /\ Len(Log) > TUTORIAL_TRIALS[1]
    /\ \A i \in 1..Len(Log) : Log[i].rt_ms = 0 - 1

\* C25: the hidden state is piecewise constant: on every trial with
\* change_flag = false, s_t equals the previous trial's s_t (for the first
\* trial, the initial state drawn for the sequence); the state is resampled
\* only on trials with change_flag = true.
C25_PiecewiseConstant ==
    /\ [](\A s \in GeneratedSeqs : \A i \in 2..Len(s) :
             ~s[i].change_flag => s[i].s_t = s[i - 1].s_t)
    /\ [][IsTrialStep =>
            /\ Pushed.s_t = currentState'
            /\ ~Pushed.change_flag =>
                  (Pushed.s_t = currentState /\ currentState' = currentState)
            /\ currentState' # currentState => Pushed.change_flag]_vars

\* a sequence under way whose first trial kept the initial state, and in
\* which a later change moved the state and the trial after it kept it
C25_Witness ==
    /\ pc = "loop"
    /\ Len(trials) > 3
    /\ ~trials[1].change_flag
    /\ trials[1].s_t = trials[2].s_t
    /\ \E j \in 3..(Len(trials) - 1) :
          /\ trials[j].change_flag
          /\ trials[j].s_t # trials[j - 1].s_t
          /\ ~trials[j + 1].change_flag
          /\ trials[j + 1].s_t = trials[j].s_t

\* C26: the hazard_rate recorded on a trial is computed from tau before the
\* trial's update, the recorded tau_true is the value after it: in an HD
\* sequence hazard_rate of trial t is calculateHDHazard(tau_true of trial
\* t-1) for t >= 1 and calculateHDHazard(0) for t = 0, and the change
\* decision of trial t compares its draw against that same value.
C26_HazardBeforeUpdate ==
    /\ [](\A s \in GeneratedSeqs : \A i \in 1..Len(s) :
             s[i].condition = "HD" =>
                s[i].hazard_rate = calculateHDHazard(TauBefore(s, i)))
    /\ [][IsTrialStep =>
            /\ Pushed.tau_true = tau'
            /\ plan[1].condition = "HD" =>
                  Pushed.hazard_rate = calculateHDHazard(tau)
            /\ Pushed.change_flag <=>
                  ProbLess(random(rng[self]).u, Pushed.hazard_rate)]_vars

\* an HD sequence under way in which a trial made at tau = 9 was unchanged
\* and the next, made at tau = 10 with hazard 0.5, was a change
C26_Witness ==
    /\ pc = "loop"
    /\ plan[1].condition = "HD"
    /\ \E j \in 2..Len(trials) :
          /\ trials[j - 1].tau_true = 10
          /\ trials[j].hazard_rate = Dbl05
          /\ trials[j].change_flag
          /\ trials[j].tau_true = 0

\* the sampleBimodalTransition call under study has returned
BimodalReturned ==
    /\ call.op = "sampleBimodalTransition"
    /\ result.done

C28_ObservationNearState ==
    \A s \in GeneratedSeqs : \A i \in 1..Len(s) :
        calculateDistance(s[i].x_t, s[i].s_t) <= s[i].likelihood_width

\* a generator has returned sequences with an observation clamped to 0 next
\* to a state above 0, an observation more than 15 from its state, and a
\* tutorial observation of half-width 10 more than 5 from its state
C28_Witness ==
    \E g \in Returned :
        LET all == SeqsOf(latest[g])
        IN  /\ \E k \in 1..12 : \E j \in 1..Len(all[k]) :
                  all[k][j].x_t = 0 /\ all[k][j].s_t > 0
            /\ \E k \in 1..12 : \E j \in 1..Len(all[k]) :
                  calculateDistance(all[k][j].x_t, all[k][j].s_t) > Fixed(15)
            /\ \E k \in 1..12 : \E j \in 1..Len(all[k]) :
                  /\ all[k][j].likelihood_width = Fixed(10)
                  /\ calculateDistance(all[k][j].x_t, all[k][j].s_t) > Fixed(5)

\* the block the session is in: its sequence in this.sequences
CurrentBlock(e) ==
    IF e.isTutorial
    THEN sequences[1][e.condition].tutorials[e.tutorialPhase]
    ELSE sequences[1][e.condition].main

C30_SessionCompletes ==
    (experiment.screen = "running")
        ~> (experiment.screen = "completion" /\ experiment.completions > 0)

\* a session with an empty main block has reached the completion screen after
\* the five tutorial blocks, with no timer left to fire
C30_Witness ==
    /\ experiment.screen = "completion"
    /\ timers = 0
    /\ sequences[1][experiment.condition].main = <<>>
    /\ Len(experimentData.trials) >= Sum(TUTORIAL_TRIALS)

\* record rec mirrors the generated trial at index rec.trial_idx of block
Mirrors(rec, block) ==
    /\ rec.trial_idx \in 0..(Len(block) - 1)
    /\ LET trial == block[rec.trial_idx + 1]
       IN  /\ rec.tau_true = trial.tau_true
           /\ rec.change_flag = trial.change_flag
           /\ rec.s_t = trial.s_t
           /\ rec.x_t = trial.x_t
           /\ rec.tutorial_phase = trial.tutorial_phase
           /\ rec.trial_idx = trial.trial_idx
           /\ rec.condition = trial.condition

\* C31: every record logged by the session mirrors the generated trial it was
\* logged for: its tau_true, change_flag, s_t and x_t equal those of the trial
\* at index trial_idx of the block being played, and its tutorial_phase equals
\* that generated trial's tutorial_phase (1..5 in tutorial, null in main),
\* under any interleaving of clicks and timers.
C31_RecordMirrorsTrial ==
    /\ [](\A i \in 1..Len(Log) :
             /\ Log[i].condition = experiment.condition
             /\ Log[i].tutorial_phase \in (1..LastTutorialPhase) \cup {null}
             /\ Mirrors(Log[i], BlockOf(Log[i])))
    /\ [][Len(Log') > Len(Log) =>
             /\ Len(Log') = Len(Log) + 1
             /\ SubSeq(Log', 1, Len(Log)) = Log
             /\ Mirrors(Log'[Len(Log')], CurrentBlock(experiment))
             /\ (Log'[Len(Log')].tutorial_phase = null) = ~experiment.isTutorial]_vars

\* the log holds a record of the main block and two records for one tutorial
\* trial (an early click) followed by a record that skips a trial
C31_Witness ==
    /\ \E i \in 1..Len(Log) :
          Log[i].tutorial_phase = null /\ Log[i].trial_idx > 0
    /\ \E i \in 1..(Len(Log) - 2) :
          /\ Log[i].tutorial_phase # null
          /\ Log[i + 1].tutorial_phase = Log[i].tutorial_phase
          /\ Log[i + 1].trial_idx = Log[i].trial_idx
          /\ Log[i + 2].tutorial_phase = Log[i].tutorial_phase
          /\ Log[i + 2].trial_idx = Log[i].trial_idx + 2

\* the points_awarded of the first n records of the log
PointsLogged(n) == [i \in 1..n |-> Log[i].points_awarded]

C33_EndExperimentOnce ==
    /\ [](/\ experiment.completions <= 1
          /\ experiment.screen = "completion" => experiment.completions = 1)
    /\ [][experiment.screen = "completion" =>
             /\ experiment'.currentTrial = experiment.currentTrial
             /\ experiment'.completions = experiment.completions]_vars

C35_Restart ==
    /\ [][(experiment.generator = 1 /\ experiment'.generator = 2) =>
             /\ experiment'.screen = "running"
             /\ experiment'.isTutorial
             /\ experiment'.tutorialPhase = 1
             /\ experiment'.trialIdx = 0
             /\ calls[2] = 1 /\ rng[2].draws > 0
             /\ sequences[2] = sequences[1]
             /\ experiment'.currentTrials =
                    sequences[2][experiment.condition].tutorials[1]
             /\ experiment'.currentTrial = experiment'.currentTrials[1]
             /\ experimentData' = experimentData
             /\ experiment'.totalScore = experiment.totalScore
             /\ experiment'.participantID = experiment.participantID
             /\ experiment'.condition = experiment.condition]_vars
    /\ [][/\ Len(Log') >= Len(Log)
          /\ SubSeq(Log', 1, Len(Log)) = Log
          /\ experimentData'.participantID = experimentData.participantID
          /\ experimentData'.condition = experimentData.condition]_vars

\* a session restarted from tutorial phase 2 has logged a click on trial 0 of
\* phase 1 after its phase-2 records, on top of the score earned before
C35_Witness ==
    /\ experiment.generator = 2
    /\ Len(Log) > Len(sequences[1][experiment.condition].tutorials[1])
    /\ Log[Len(Log)].tutorial_phase = 1
    /\ Log[Len(Log)].trial_idx = 0
    /\ Log[Len(Log) - 1].tutorial_phase = 2
    /\ Log[Len(Log)].score_total_at_checkpoint
           > Log[Len(Log)].points_awarded

=============================================================================
